---------------------------- MODULE Spec2Model ----------------------------
(***************************************************************************)
(* Gear set calculator: the locked gear manager (locked_gear_manager.py),  *)
(* the rule and value tables (config.py, config_numerical.py) and the      *)
(* enumerate-and-allocate solver (calculator_v2.py).                       *)
(*                                                                         *)
(* Python values are modelled as follows.  A dict is a function over its   *)
(* key set (dict equality ignores insertion order); where the code         *)
(* depends on the iteration order of a dict (min_stats) the dict is a      *)
(* sequence of <<key, value>> pairs in insertion order.  A list is a       *)
(* sequence.  None is the value None below.  The optional argument         *)
(* max_solutions is <<>> for None and <<n>> for the integer n.             *)
(***************************************************************************)
EXTENDS Integers, Sequences, FiniteSets, TLC

(***************************************************************************)
(* Generic helpers for Python built-ins.                                   *)
(***************************************************************************)
None == "None"

\* bool(x) for a value that is None or a string
Truthy(x) == x # None /\ x # ""

Range(s) == {s[i] : i \in 1..Len(s)}

Min2(a, b) == IF a <= b THEN a ELSE b

\* [x for x in s if x not in excl]
FilterOut(s, excl) ==
    LET kept(x) == x \notin excl
    IN  SelectSeq(s, kept)

\* [x for x in s if x in keep]
FilterIn(s, keep) ==
    LET kept(x) == x \in keep
    IN  SelectSeq(s, kept)

\* itertools.combinations(s, k): the k-element subsequences of s, in
\* lexicographic order of their positions.
RECURSIVE Combinations(_, _)
Combinations(s, k) ==
    IF k = 0 THEN << <<>> >>
    ELSE IF Len(s) < k THEN <<>>
    ELSE LET withHead == Combinations(Tail(s), k - 1)
             without  == Combinations(Tail(s), k)
         IN  [i \in 1..Len(withHead) |-> <<Head(s)>> \o withHead[i]] \o without

\* sum(d.values()) for a dict d
RECURSIVE SumValues(_)
SumValues(d) ==
    IF DOMAIN d = {} THEN 0
    ELSE LET k == CHOOSE x \in DOMAIN d : TRUE
         IN  d[k] + SumValues([x \in DOMAIN d \ {k} |-> d[x]])

(***************************************************************************)
(* config.py: the rule tables.                                             *)
(***************************************************************************)
ALL_STATS == <<"Crit", "Haste", "Mastery", "Versatility", "Luck">>

Stats == Range(ALL_STATS)

CLASS_ATTRIBUTES ==
    [c \in {"Shield Knight", "Wind Knight", "Heavy Guardian", "Stormblade",
            "Marksman", "Frost Mage", "Verdant Oracle", "Beat Performer"} |->
        CASE c \in {"Shield Knight", "Wind Knight", "Heavy Guardian"} -> "Strength"
          [] c \in {"Stormblade", "Marksman"} -> "Agility"
          [] OTHER -> "Intellect"]

SUBCLASSES ==
    [c \in DOMAIN CLASS_ATTRIBUTES |->
        CASE c = "Stormblade"     -> <<"Iaido", "Moonstrike">>
          [] c = "Frost Mage"     -> <<"Icicle", "Frost Beam">>
          [] c = "Wind Knight"    -> <<"Skyward", "Vanguard">>
          [] c = "Verdant Oracle" -> <<"Smite", "Lifebind">>
          [] c = "Heavy Guardian" -> <<"Block", "Earthfort">>
          [] c = "Marksman"       -> <<"Falconry", "Wildpack">>
          [] c = "Shield Knight"  -> <<"Shield", "Recovery">>
          [] c = "Beat Performer" -> <<"Dissonance", "Concerto">>]

MANDATORY_SLOTS == <<"Earrings", "Ring", "Charm", "Necklace">>

OPTIONAL_SLOTS ==
    <<"Helmet", "Armor", "Gauntlets", "Boots", "Bracelet(L)", "Bracelet(R)">>

ALL_GEAR_SLOTS == MANDATORY_SLOTS \o OPTIONAL_SLOTS

UNIQUE_ALLOWED_SLOTS ==
    <<"Helmet", "Armor", "Gauntlets", "Boots", "Bracelet(L)", "Bracelet(R)">>

\* The weapon position, outside the ten-slot pool.
WEAPON == "Weapon"

FORBIDDEN_STATS ==
    [a \in {"Agility", "Intellect", "Strength"} |->
      [s \in Range(ALL_GEAR_SLOTS) |->
        CASE a = "Agility" ->
               (CASE s = "Helmet"      -> "Haste"
                  [] s = "Armor"       -> "Mastery"
                  [] s = "Gauntlets"   -> "Crit"
                  [] s = "Boots"       -> "Crit"
                  [] s = "Earrings"    -> "Haste"
                  [] s = "Necklace"    -> "Mastery"
                  [] s = "Ring"        -> "Versatility"
                  [] s = "Bracelet(L)" -> "Versatility"
                  [] s = "Bracelet(R)" -> "Luck"
                  [] s = "Charm"       -> "Luck")
          [] a = "Intellect" ->
               (CASE s = "Helmet"      -> "Crit"
                  [] s = "Armor"       -> "Crit"
                  [] s = "Gauntlets"   -> "Versatility"
                  [] s = "Boots"       -> "Luck"
                  [] s = "Earrings"    -> "Versatility"
                  [] s = "Necklace"    -> "Luck"
                  [] s = "Ring"        -> "Mastery"
                  [] s = "Bracelet(L)" -> "Haste"
                  [] s = "Bracelet(R)" -> "Mastery"
                  [] s = "Charm"       -> "Haste")
          [] a = "Strength" ->
               (CASE s = "Helmet"      -> "Versatility"
                  [] s = "Armor"       -> "Luck"
                  [] s = "Gauntlets"   -> "Haste"
                  [] s = "Boots"       -> "Mastery"
                  [] s = "Earrings"    -> "Mastery"
                  [] s = "Necklace"    -> "Haste"
                  [] s = "Ring"        -> "Luck"
                  [] s = "Bracelet(L)" -> "Crit"
                  [] s = "Bracelet(R)" -> "Crit"
                  [] s = "Charm"       -> "Versatility")]]

\* FORBIDDEN_STATS.get(attribute, {}).get(slot, None)
get_forbidden_stat(slot, attribute) ==
    IF attribute \in DOMAIN FORBIDDEN_STATS
       /\ slot \in DOMAIN FORBIDDEN_STATS[attribute]
    THEN FORBIDDEN_STATS[attribute][slot]
    ELSE None

get_valid_stats_for_slot(slot, attribute) ==
    LET forbidden == get_forbidden_stat(slot, attribute)
    IN  IF Truthy(forbidden) THEN FilterOut(ALL_STATS, {forbidden})
        ELSE ALL_STATS

\* validate_class_subclass that only looks the class up.
validate_class_only(class_name, subclass_name) == class_name \in DOMAIN SUBCLASSES

validate_class_subclass(class_name, subclass_name) ==
    IF class_name \notin DOMAIN SUBCLASSES THEN FALSE
    ELSE subclass_name \in Range(SUBCLASSES[class_name])

(***************************************************************************)
(* config_numerical.py: the value tables.                                  *)
(***************************************************************************)
GEAR_LEVELS ==
    [l \in {40, 60, 80} |->
        CASE l = 40 -> [primary |-> 100, secondary |-> 50, reforge |-> 30]
          [] l = 60 -> [primary |-> 140, secondary |-> 70, reforge |-> 42]
          [] l = 80 -> [primary |-> 200, secondary |-> 100, reforge |-> 60]]

WEAPON_LEVELS ==
    [l \in {70, 90} |->
        CASE l = 70 -> [stat_value |-> 306]
          [] l = 90 -> [stat_value |-> 384]]

SUBCLASS_UNIQUE_STATS ==
    [r \in {"Iaido", "Moonstrike", "Icicle", "Frost Beam", "Skyward", "Vanguard",
            "Smite", "Lifebind", "Block", "Earthfort", "Falconry", "Wildpack",
            "Shield", "Recovery", "Dissonance", "Concerto"} |->
        CASE r = "Iaido"      -> <<"Crit", "Mastery">>
          [] r = "Moonstrike" -> <<"Luck", "Haste">>
          [] r = "Icicle"     -> <<"Crit", "Luck">>
          [] r = "Frost Beam" -> <<"Haste", "Mastery">>
          [] r = "Skyward"    -> <<"Crit", "Luck">>
          [] r = "Vanguard"   -> <<"Haste", "Mastery">>
          [] r = "Smite"      -> <<"Mastery", "Luck">>
          [] r = "Lifebind"   -> <<"Mastery", "Haste">>
          [] r = "Block"      -> <<"Mastery", "Luck">>
          [] r = "Earthfort"  -> <<"Mastery", "Versatility">>
          [] r = "Falconry"   -> <<"Crit", "Haste">>
          [] r = "Wildpack"   -> <<"Haste", "Mastery">>
          [] r = "Shield"     -> <<"Haste", "Mastery">>
          [] r = "Recovery"   -> <<"Crit", "Mastery">>
          [] r = "Dissonance" -> <<"Haste", "Luck">>
          [] r = "Concerto"   -> <<"Crit", "Haste">>]

get_gear_level_stats(level) == GEAR_LEVELS[level]

get_weapon_stats(weapon_level) == WEAPON_LEVELS[weapon_level].stat_value

\* The role's unique pair; the class's role list is the key set of
\* SUBCLASS_UNIQUE_STATS[class_name], equal to SUBCLASSES[class_name].
get_unique_stats(class_name, subclass_name) == SUBCLASS_UNIQUE_STATS[subclass_name]

\* gem_values.get(gem_assumption, 60)
GemValue(gem_assumption) ==
    CASE gem_assumption = "min" -> 50
      [] gem_assumption = "avg" -> 60
      [] gem_assumption = "max" -> 70
      [] OTHER -> 60

(***************************************************************************)
(* locked_gear_manager.py: LockedGear.                                     *)
(***************************************************************************)
LockedGear(slot, is_unique, main_stat, sub_stat, gem_stat, reforge_stat) ==
    [slot |-> slot, is_unique |-> is_unique, main_stat |-> main_stat,
     sub_stat |-> sub_stat, gem_stat |-> gem_stat, reforge_stat |-> reforge_stat]

ZeroStats == [s \in Stats |-> 0]

\* stats[key] += value
AddTo(stats, key, value) == [stats EXCEPT ![key] = @ + value]

\* get_stats without the reforge of the piece.
get_stats_no_reforge(piece, gear_level, unique_stats, gem_value, reforge_value) ==
    LET gear_stats == get_gear_level_stats(gear_level)
        base ==
          IF piece.is_unique
          THEN AddTo(AddTo(ZeroStats, unique_stats[1], gear_stats.primary),
                     unique_stats[2], gear_stats.primary)
          ELSE LET m == IF Truthy(piece.main_stat)
                        THEN AddTo(ZeroStats, piece.main_stat, gear_stats.primary)
                        ELSE ZeroStats
               IN  IF Truthy(piece.sub_stat)
                   THEN AddTo(m, piece.sub_stat, gear_stats.secondary)
                   ELSE m
    IN  IF Truthy(piece.gem_stat)
        THEN AddTo(base, piece.gem_stat, gem_value) ELSE base

\* LockedGear.get_stats
get_stats(piece, gear_level, unique_stats, gem_value, reforge_value) ==
    LET gear_stats == get_gear_level_stats(gear_level)
        base ==
          IF piece.is_unique
          THEN AddTo(AddTo(ZeroStats, unique_stats[1], gear_stats.primary),
                     unique_stats[2], gear_stats.primary)
          ELSE LET m == IF Truthy(piece.main_stat)
                        THEN AddTo(ZeroStats, piece.main_stat, gear_stats.primary)
                        ELSE ZeroStats
               IN  IF Truthy(piece.sub_stat)
                   THEN AddTo(m, piece.sub_stat, gear_stats.secondary)
                   ELSE m
        withGem == IF Truthy(piece.gem_stat)
                   THEN AddTo(base, piece.gem_stat, gem_value) ELSE base
    IN  IF Truthy(piece.reforge_stat)
        THEN AddTo(withGem, piece.reforge_stat, reforge_value) ELSE withGem

\* validate without the test that main and sub statistic differ.
validate_no_distinct(piece, attribute, unique_stats) ==
    IF piece.is_unique
    THEN IF unique_stats = <<>> \/ unique_stats = None
         THEN <<FALSE, "Unique stats not provided for validation">>
         ELSE <<TRUE, "Valid">>
    ELSE IF ~Truthy(piece.main_stat) \/ ~Truthy(piece.sub_stat)
         THEN <<FALSE, "Regular gear must have both main and sub stats">>
    ELSE LET forbidden == get_forbidden_stat(piece.slot, attribute)
         IN  IF Truthy(forbidden)
                /\ (piece.main_stat = forbidden \/ piece.sub_stat = forbidden)
             THEN <<FALSE, "forbidden stat">>
             ELSE <<TRUE, "Valid">>

\* LockedGear.validate: <<is_valid, error_message>>
validate(piece, attribute, unique_stats) ==
    IF piece.is_unique
    THEN IF unique_stats = <<>> \/ unique_stats = None
         THEN <<FALSE, "Unique stats not provided for validation">>
         ELSE <<TRUE, "Valid">>
    ELSE IF ~Truthy(piece.main_stat) \/ ~Truthy(piece.sub_stat)
         THEN <<FALSE, "Regular gear must have both main and sub stats">>
    ELSE IF piece.main_stat = piece.sub_stat
         THEN <<FALSE, "Main stat cannot equal sub stat">>
    ELSE LET forbidden == get_forbidden_stat(piece.slot, attribute)
         IN  IF Truthy(forbidden)
                /\ (piece.main_stat = forbidden \/ piece.sub_stat = forbidden)
             THEN <<FALSE, "forbidden stat">>
             ELSE <<TRUE, "Valid">>

(***************************************************************************)
(* locked_gear_manager.py: LockedGearManager, as operators on the list     *)
(* locked_pieces.                                                          *)
(***************************************************************************)
is_slot_locked(pieces, slot) == \E i \in 1..Len(pieces) : pieces[i].slot = slot

\* The messages of add_gear, each the list of the parts of its f-string.
SlotAlreadyLocked(slot) == <<slot, " is already locked. Remove it first.">>

CapacityExceeded == <<"Cannot lock more than 10 gear pieces">>

Added(slot) == <<"Added ", slot>>

\* add_gear with the capacity test made before the slot test.
add_gear_capacity_first(pieces, gear) ==
    IF Len(pieces) >= 10
    THEN <<FALSE, pieces, CapacityExceeded>>
    ELSE IF \E i \in 1..Len(pieces) : pieces[i].slot = gear.slot
    THEN <<FALSE, pieces, SlotAlreadyLocked(gear.slot)>>
    ELSE <<TRUE, Append(pieces, gear), Added(gear.slot)>>

\* add_gear that puts the new piece in the place of the one on its slot
\* before it reports the slot as locked.
add_gear_overwrite(pieces, gear) ==
    IF \E i \in 1..Len(pieces) : pieces[i].slot = gear.slot
    THEN <<FALSE,
           [i \in 1..Len(pieces) |->
               IF pieces[i].slot = gear.slot THEN gear ELSE pieces[i]],
           SlotAlreadyLocked(gear.slot)>>
    ELSE IF Len(pieces) >= 10
    THEN <<FALSE, pieces, CapacityExceeded>>
    ELSE <<TRUE, Append(pieces, gear), Added(gear.slot)>>

\* add_gear: <<success, locked_pieces afterwards, message>>
add_gear(pieces, gear) ==
    IF \E i \in 1..Len(pieces) : pieces[i].slot = gear.slot
    THEN <<FALSE, pieces, SlotAlreadyLocked(gear.slot)>>
    ELSE IF Len(pieces) >= 10
    THEN <<FALSE, pieces, CapacityExceeded>>
    ELSE <<TRUE, Append(pieces, gear), Added(gear.slot)>>

\* remove_gear: locked_pieces afterwards
remove_gear(pieces, slot) ==
    LET kept(piece) == piece.slot # slot
    IN  SelectSeq(pieces, kept)

\* get_gear: the first piece on the slot, or None
get_gear(pieces, slot) ==
    IF \E i \in 1..Len(pieces) : pieces[i].slot = slot
    THEN pieces[CHOOSE i \in 1..Len(pieces) :
                  /\ pieces[i].slot = slot
                  /\ \A j \in 1..(i - 1) : pieces[j].slot # slot]
    ELSE None

\* clear_all: locked_pieces afterwards
clear_all(pieces) == <<>>

get_locked_slots(pieces) == [i \in 1..Len(pieces) |-> pieces[i].slot]

RECURSIVE get_total_stats(_, _, _, _)
get_total_stats(pieces, gear_level, unique_stats, gem_value) ==
    IF pieces = <<>> THEN ZeroStats
    ELSE LET reforge_value == get_gear_level_stats(gear_level).reforge
             n     == Len(pieces)
             front == get_total_stats(SubSeq(pieces, 1, n - 1), gear_level,
                                      unique_stats, gem_value)
             piece_stats == get_stats(pieces[n], gear_level, unique_stats,
                                      gem_value, reforge_value)
         IN  [s \in Stats |-> front[s] + piece_stats[s]]

\* <<gems_used, reforges_used>>
get_resource_usage(pieces) ==
    <<Cardinality({i \in 1..Len(pieces) : Truthy(pieces[i].gem_stat)}),
      Cardinality({i \in 1..Len(pieces) : Truthy(pieces[i].reforge_stat)})>>

\* get_available_resources with the two counts taken for each other.
get_available_resources_swapped(pieces) ==
    LET used == get_resource_usage(pieces)
    IN  <<11 - used[2], 11 - used[1]>>

\* <<gems_available, reforges_available>>
get_available_resources(pieces) ==
    LET used == get_resource_usage(pieces)
    IN  <<11 - used[1], 11 - used[2]>>

\* validate_all: the list of <<slot, error_message>> of the invalid pieces
RECURSIVE validate_all(_, _, _)
validate_all(pieces, attribute, unique_stats) ==
    IF pieces = <<>> THEN <<>>
    ELSE LET checked == validate(Head(pieces), attribute, unique_stats)
             rest    == validate_all(Tail(pieces), attribute, unique_stats)
         IN  IF ~checked[1]
             THEN << <<Head(pieces).slot, checked[2]>> >> \o rest
             ELSE rest

count(pieces) == Len(pieces)

\* dict.get(key), None when the key is absent
DictGet(data, key) == IF key \in DOMAIN data THEN data[key] ELSE None

\* LockedGear.to_dict
piece_to_dict(piece) ==
    [key \in {"slot", "is_unique", "main_stat", "sub_stat", "gem_stat",
              "reforge_stat"} |->
        CASE key = "slot"         -> piece.slot
          [] key = "is_unique"    -> piece.is_unique
          [] key = "main_stat"    -> piece.main_stat
          [] key = "sub_stat"     -> piece.sub_stat
          [] key = "gem_stat"     -> piece.gem_stat
          [] key = "reforge_stat" -> piece.reforge_stat]

\* from_dict reading the gem under 'reforge_stat' and the reforge under
\* 'gem_stat'.
piece_from_dict_swapped(data) ==
    LockedGear(data["slot"], data["is_unique"], DictGet(data, "main_stat"),
               DictGet(data, "sub_stat"), DictGet(data, "reforge_stat"),
               DictGet(data, "gem_stat"))

\* LockedGear.from_dict
piece_from_dict(data) ==
    LockedGear(data["slot"], data["is_unique"], DictGet(data, "main_stat"),
               DictGet(data, "sub_stat"), DictGet(data, "gem_stat"),
               DictGet(data, "reforge_stat"))

\* LockedGearManager.to_dict: the list under the key 'locked_pieces'
to_dict(pieces) == [i \in 1..Len(pieces) |-> piece_to_dict(pieces[i])]

\* LockedGearManager.from_dict: locked_pieces of the manager it builds, each
\* entry appended as it comes
RECURSIVE from_dict(_)
from_dict(data) ==
    IF data = <<>> THEN <<>>
    ELSE LET n == Len(data)
         IN  Append(from_dict(SubSeq(data, 1, n - 1)), piece_from_dict(data[n]))


(***************************************************************************)
(* calculator_v2.py: GearCalculator.__init__.  The calculator is the       *)
(* record of its fields.  locked_slots is a Python set of strings; the     *)
(* order in which list(self.locked_slots) lists it is fixed by the         *)
(* interpreter's string hashing (randomised per process), so the field     *)
(* locked_slots_order carries the order this process iterates the set in.  *)
(***************************************************************************)

\* list(set(s)): the order depends on the hash seed.  The orders followed
\* here are the rotations of s, one per seed.
SetOrder(s, seed) ==
    IF s = <<>> THEN <<>>
    ELSE LET n == Len(s)
             k == seed % n
         IN  SubSeq(s, k + 1, n) \o SubSeq(s, 1, k)

\* The inputs __init__ accepts without raising.
ValidConfig(class_name, subclass_name, gear_level, weapon_level) ==
    /\ validate_class_subclass(class_name, subclass_name)
    /\ gear_level \in DOMAIN GEAR_LEVELS
    /\ weapon_level \in DOMAIN WEAPON_LEVELS

GearCalculator(class_name, subclass_name, gear_level, weapon_level, unique_count, gem_assumption, min_stats, pieces, seed) ==
    LET gear_stats   == get_gear_level_stats(gear_level)
        unique_stats == get_unique_stats(class_name, subclass_name)
        gem_value    == GemValue(gem_assumption)
        has_locked   == count(pieces) > 0
        locked_slots == Range(get_locked_slots(pieces))
        available_unique_slots == FilterOut(UNIQUE_ALLOWED_SLOTS, locked_slots)
        locked_unique_count ==
            Cardinality({i \in 1..Len(pieces) : pieces[i].is_unique})
        avail == get_available_resources(pieces)
        capped == Min2(unique_count, Len(available_unique_slots))
    IN  [class_name        |-> class_name,
         subclass_name     |-> subclass_name,
         gear_level        |-> gear_level,
         weapon_level      |-> weapon_level,
         min_stats         |-> min_stats,
         attribute         |-> CLASS_ATTRIBUTES[class_name],
         primary_value     |-> gear_stats.primary,
         secondary_value   |-> gear_stats.secondary,
         reforge_value     |-> gear_stats.reforge,
         weapon_stat_value |-> get_weapon_stats(weapon_level),
         unique_stats      |-> unique_stats,
         gem_value         |-> gem_value,
         has_locked_gear   |-> has_locked,
         locked_stats      |-> IF has_locked
                               THEN get_total_stats(pieces, gear_level,
                                                    unique_stats, gem_value)
                               ELSE ZeroStats,
         locked_slots      |-> IF has_locked THEN locked_slots ELSE {},
         locked_slots_order |-> IF has_locked
                                THEN SetOrder(get_locked_slots(pieces), seed)
                                ELSE <<>>,
         total_gems        |-> IF has_locked THEN avail[1] ELSE 11,
         total_reforges    |-> IF has_locked THEN avail[2] ELSE 11,
         slots_to_fill     |-> IF has_locked THEN 10 - Cardinality(locked_slots)
                               ELSE 10,
         unique_count      |-> IF has_locked THEN capped ELSE unique_count,
         total_unique_in_build |-> IF has_locked
                                   THEN locked_unique_count + capped
                                   ELSE unique_count]

(***************************************************************************)
(* calculator_v2.py: the search space enumerator.                          *)
(***************************************************************************)
get_optional_slot_combinations(c) ==
    LET available_optional  == FilterOut(OPTIONAL_SLOTS, c.locked_slots)
        available_mandatory == FilterOut(MANDATORY_SLOTS, c.locked_slots)
        slots_needed    == c.slots_to_fill
        mandatory_count == Len(available_mandatory)
        optional_needed == IF slots_needed - mandatory_count < 0 THEN 0
                           ELSE slots_needed - mandatory_count
    IN  IF optional_needed > Len(available_optional) THEN <<>>
        ELSE IF optional_needed = 0 THEN <<available_mandatory>>
        ELSE LET optional_combos == Combinations(available_optional, optional_needed)
             IN  [i \in 1..Len(optional_combos) |->
                     available_mandatory \o optional_combos[i]]

get_unique_slot_assignments(c, slots) ==
    LET valid_unique_slots == FilterIn(slots, Range(UNIQUE_ALLOWED_SLOTS))
    IN  IF c.unique_count = 0 THEN << <<>> >>
        ELSE IF c.unique_count > Len(valid_unique_slots) THEN <<>>
        ELSE Combinations(valid_unique_slots, c.unique_count)

\* The inner loop without the test main_stat != sub_stat.
SubLoopAll(main_stat, valid_stats) ==
    [j \in 1..Len(valid_stats) |-> <<main_stat, valid_stats[j], FALSE>>]

\* The inner loop over the valid stats from the last to the first.
SubLoopBackwards(main_stat, valid_stats) ==
    LET subs == FilterOut(valid_stats, {main_stat})
    IN  [j \in 1..Len(subs) |-> <<main_stat, subs[Len(subs) + 1 - j], FALSE>>]

\* The inner loops of recurse for one main stat:
\* for sub_stat in valid_stats: if main_stat != sub_stat
SubLoop(main_stat, valid_stats) ==
    LET subs == FilterOut(valid_stats, {main_stat})
    IN  [j \in 1..Len(subs) |-> <<main_stat, subs[j], FALSE>>]

\* for main_stat in valid_stats (from the i-th on): the assignments tried,
\* in order.
RECURSIVE MainLoop(_, _)
MainLoop(i, valid_stats) ==
    IF i > Len(valid_stats) THEN <<>>
    ELSE SubLoop(valid_stats[i], valid_stats) \o MainLoop(i + 1, valid_stats)

\* The assignments recurse tries for one slot, in order.
SlotAssignments(c, slot, unique_slots) ==
    IF slot \in Range(unique_slots)
    THEN << <<c.unique_stats[1], c.unique_stats[2], TRUE>> >>
    ELSE MainLoop(1, get_valid_stats_for_slot(slot, c.attribute))

\* Number of assignments recurse tries for one slot: one for a unique slot,
\* and for a regular slot the passes of the two loops with main_stat !=
\* sub_stat (the valid stats are distinct).
AssignmentCount(c, slot, unique_slots) ==
    IF slot \in Range(unique_slots) THEN 1
    ELSE LET n == Len(get_valid_stats_for_slot(slot, c.attribute))
         IN  n * (n - 1)

\* Number of dicts recurse yields from slot index `index` on.
RECURSIVE LeafCount(_, _, _, _)
LeafCount(c, slots, unique_slots, index) ==
    IF index > Len(slots) THEN 1
    ELSE AssignmentCount(c, slots[index], unique_slots)
         * LeafCount(c, slots, unique_slots, index + 1)

\* The n-th (from 1) dict that recurse(index, current_assignment) yields:
\* the slot at `index` is the outer loop, the slots after it the inner ones.
RECURSIVE recurse(_, _, _, _, _, _)
recurse(c, slots, unique_slots, index, current_assignment, n) ==
    IF index > Len(slots) THEN current_assignment
    ELSE LET slot    == slots[index]
             options == SlotAssignments(c, slot, unique_slots)
             inner   == LeafCount(c, slots, unique_slots, index + 1)
             choice  == options[((n - 1) \div inner) + 1]
             next    == [s \in DOMAIN current_assignment \cup {slot} |->
                           IF s = slot THEN choice ELSE current_assignment[s]]
         IN  recurse(c, slots, unique_slots, index + 1, next,
                     ((n - 1) % inner) + 1)

\* The n-th dict of enumerate_gear_stats(slots, unique_slots).
enumerate_gear_stats(c, slots, unique_slots, n) ==
    recurse(c, slots, unique_slots, 1, <<>>, n)

(***************************************************************************)
(* calculator_v2.py: the totals calculator.                                *)
(***************************************************************************)
\* for slot, (stat1, stat2, is_unique) in gear_assignment.items(), over the
\* slots in dict order
RECURSIVE AddGear(_, _, _, _)
AddGear(c, totals, gear_assignment, slots) ==
    IF slots = <<>> THEN totals
    ELSE LET a == gear_assignment[Head(slots)]
             t == IF a[3]
                  THEN AddTo(AddTo(totals, a[1], c.primary_value),
                             a[2], c.primary_value)
                  ELSE AddTo(AddTo(totals, a[1], c.primary_value),
                             a[2], c.secondary_value)
         IN  AddGear(c, t, gear_assignment, Tail(slots))

\* The totals without the weapon's contribution.
calculate_gear_totals_no_weapon(c, gear_assignment, slots) ==
    AddGear(c, [s \in Stats |-> 0 + c.locked_stats[s]], gear_assignment, slots)

calculate_gear_totals(c, gear_assignment, slots) ==
    LET locked == [s \in Stats |-> 0 + c.locked_stats[s]]
        withWeapon ==
            IF WEAPON \notin c.locked_slots
            THEN AddTo(AddTo(locked, c.unique_stats[1], c.weapon_stat_value),
                       c.unique_stats[2], c.weapon_stat_value)
            ELSE locked
    IN  AddGear(c, withWeapon, gear_assignment, slots)


(***************************************************************************)
(* calculator_v2.py: the resource allocator.                               *)
(***************************************************************************)
\* d[k] = v
Put(d, k, v) == [x \in DOMAIN d \cup {k} |-> IF x = k THEN v ELSE d[x]]

\* del d[k]
Del(d, k) == [x \in DOMAIN d \ {k} |-> d[x]]

\* d.get(k, 0)
Get0(d, k) == IF k \in DOMAIN d THEN d[k] ELSE 0

\* list(min_stats.keys())
Keys(min_stats) == [i \in 1..Len(min_stats) |-> min_stats[i][1]]

\* Insertion before the keys that are as large: equal keys come out in
\* reverse.
RECURSIVE InsertDescTiesReversed(_, _, _)
InsertDescTiesReversed(s, k, needed) ==
    IF s = <<>> THEN <<k>>
    ELSE IF needed[Head(s)] > needed[k]
         THEN <<Head(s)>> \o InsertDescTiesReversed(Tail(s), k, needed)
         ELSE <<k>> \o s

\* Insert key k into the list s, sorted by descending needed[.], after the
\* keys that are at least as large: the sort is stable.
RECURSIVE InsertDesc(_, _, _)
InsertDesc(s, k, needed) ==
    IF s = <<>> THEN <<k>>
    ELSE IF needed[Head(s)] >= needed[k]
         THEN <<Head(s)>> \o InsertDesc(Tail(s), k, needed)
         ELSE <<k>> \o s

\* sorted(keys, key=lambda s: needed[s], reverse=True)
RECURSIVE SortedDesc(_, _)
SortedDesc(keys, needed) ==
    IF keys = <<>> THEN <<>>
    ELSE InsertDesc(SortedDesc(SubSeq(keys, 1, Len(keys) - 1), needed),
                    keys[Len(keys)], needed)

\* The greedy loop spending what a statistic wants without looking at what is
\* left of the pool.
RECURSIVE SpendLoopNoMin(_, _, _, _, _)
SpendLoopNoMin(order, needed, counts, remaining, value) ==
    IF order = <<>> THEN [counts |-> counts, needed |-> needed]
    ELSE LET stat    == Head(order)
             wanted  == (needed[stat] + value - 1) \div value
             to_use  == wanted
             left    == needed[stat] - to_use * value
         IN  IF to_use > 0
             THEN SpendLoopNoMin(Tail(order),
                                 IF left <= 0 THEN Del(needed, stat)
                                 ELSE [needed EXCEPT ![stat] = left],
                                 Put(counts, stat, to_use),
                                 remaining - to_use, value)
             ELSE SpendLoopNoMin(Tail(order), needed, counts, remaining, value)

\* One of the two greedy loops (gems, then reforges) over the sorted keys:
\* [counts, needed] when the loop ends.
RECURSIVE SpendLoop(_, _, _, _, _)
SpendLoop(order, needed, counts, remaining, value) ==
    IF order = <<>> THEN [counts |-> counts, needed |-> needed]
    ELSE LET stat    == Head(order)
             wanted  == (needed[stat] + value - 1) \div value
             to_use  == Min2(wanted, remaining)
             left    == needed[stat] - to_use * value
         IN  IF to_use > 0
             THEN SpendLoop(Tail(order),
                            IF left <= 0 THEN Del(needed, stat)
                            ELSE [needed EXCEPT ![stat] = left],
                            Put(counts, stat, to_use),
                            remaining - to_use, value)
             ELSE SpendLoop(Tail(order), needed, counts, remaining, value)

\* final_totals[stat] = final_totals.get(stat, 0) + count * value, for every
\* item of counts
AddSpend(totals, counts, value) ==
    [s \in DOMAIN totals \cup DOMAIN counts |->
        Get0(totals, s) + (IF s \in DOMAIN counts THEN counts[s] * value ELSE 0)]

\* all(final_totals.get(stat, 0) >= min_val for stat, min_val in min_stats.items())
MeetsRequirements(min_stats, final_totals) ==
    \A i \in 1..Len(min_stats) : Get0(final_totals, min_stats[i][1]) >= min_stats[i][2]

\* The deficits with the comparison turned round: current > min_val
NeededFlipped(min_stats, gear_totals) ==
    LET short == {i \in 1..Len(min_stats) :
                     Get0(gear_totals, min_stats[i][1]) > min_stats[i][2]}
    IN  [s \in {min_stats[i][1] : i \in short} |->
            LET i == CHOOSE j \in short : min_stats[j][1] = s
            IN  min_stats[i][2] - Get0(gear_totals, s)]

\* The deficits with every threshold short by at least 1, those the gear
\* reaches included.
NeededAtLeastOne(min_stats, gear_totals) ==
    [s \in {min_stats[i][1] : i \in 1..Len(min_stats)} |->
        LET i == CHOOSE j \in 1..Len(min_stats) : min_stats[j][1] = s
            short == min_stats[i][2] - Get0(gear_totals, s)
        IN  IF short > 1 THEN short ELSE 1]

\* The deficits: needed[stat] = min_val - current where current < min_val
Needed(min_stats, gear_totals) ==
    LET short == {i \in 1..Len(min_stats) :
                     Get0(gear_totals, min_stats[i][1]) < min_stats[i][2]}
    IN  [s \in {min_stats[i][1] : i \in short} |->
            LET i == CHOOSE j \in short : min_stats[j][1] = s
            IN  min_stats[i][2] - Get0(gear_totals, s)]

\* The allocator without its reforge phase.
assign_gems_only(c, gear_totals) ==
    LET needed == Needed(c.min_stats, gear_totals)
        keys   == Keys(c.min_stats)
    IN  IF DOMAIN needed = {} THEN << <<>>, <<>>, gear_totals, TRUE >>
        ELSE
        LET gems == SpendLoop(SortedDesc(FilterIn(keys, DOMAIN needed), needed),
                              needed, <<>>, c.total_gems, c.gem_value)
        IN  IF DOMAIN gems.needed # {} THEN <<>>
            ELSE << gems.counts, <<>>,
                    AddSpend(gear_totals, gems.counts, c.gem_value), TRUE >>

\* assign_gems_and_reforges: <<>> for None, otherwise
\* <<gem_counts, reforge_counts, final_totals, meets_requirements>>
assign_gems_and_reforges(c, gear_totals) ==
    LET needed == Needed(c.min_stats, gear_totals)
        keys   == Keys(c.min_stats)
    IN  IF DOMAIN needed = {} THEN << <<>>, <<>>, gear_totals, TRUE >>
        ELSE
        LET gems == SpendLoop(SortedDesc(FilterIn(keys, DOMAIN needed), needed),
                              needed, <<>>, c.total_gems, c.gem_value)
            reforges ==
                SpendLoop(SortedDesc(FilterIn(keys, DOMAIN gems.needed), gems.needed),
                          gems.needed, <<>>, c.total_reforges, c.reforge_value)
        IN  IF DOMAIN reforges.needed # {} THEN <<>>
            ELSE LET final_totals ==
                        AddSpend(AddSpend(gear_totals, gems.counts, c.gem_value),
                                 reforges.counts, c.reforge_value)
                 IN  <<gems.counts, reforges.counts, final_totals,
                       MeetsRequirements(c.min_stats, final_totals)>>


(***************************************************************************)
(* Bounds and inputs of the model.                                         *)
(***************************************************************************)
\* Largest solution cap passed to calculate.
MaxCap == 2

\* Candidates one calculate call is followed through; a longer search is
\* followed for its first MaxSteps candidates.
MaxSteps == 30

\* The string hash seeds of the interpreter processes considered.
MaxHashSeed == 1

HashSeeds == 0..MaxHashSeed

\* max_solutions: None, or an integer
CapInputs == {<<>>} \cup {<<n>> : n \in 0..MaxCap}

\* Seven pieces, each legal for every class, locked before the model starts.
BasePieces ==
    << LockedGear("Earrings", FALSE, "Crit", "Luck", "Crit", None),
       LockedGear("Charm", FALSE, "Crit", "Mastery", None, "Mastery"),
       LockedGear("Necklace", FALSE, "Crit", "Versatility", None, None),
       LockedGear("Gauntlets", TRUE, None, None, "Haste", None),
       LockedGear("Boots", TRUE, None, None, None, None),
       LockedGear("Bracelet(L)", TRUE, None, None, "Luck", None),
       LockedGear("Bracelet(R)", TRUE, None, None, None, None) >>

\* The manager after add_gear has been called with each piece of the list.
RECURSIVE AddAll(_, _)
AddAll(pieces, gears) ==
    IF gears = <<>> THEN pieces
    ELSE AddAll(add_gear(pieces, Head(gears))[2], Tail(gears))

\* The pieces the user may lock next: a unique Ring, a regular Helmet (legal
\* for Agility and Strength classes), a regular Armor (legal for every
\* class) and a regular Weapon.
GearInputs ==
    { LockedGear("Ring", TRUE, None, None, "Luck", None),
      LockedGear("Helmet", FALSE, "Crit", "Luck", "Haste", "Crit"),
      LockedGear("Armor", FALSE, "Haste", "Versatility", None, None),
      LockedGear(WEAPON, FALSE, "Haste", "Luck", None, None) }

RoleInputs == { <<"Stormblade", "Moonstrike">>, <<"Frost Mage", "Icicle">> }

UniqueCountInputs == {0, 1, 6}

MinStatsInputs ==
    { <<>>,
      << <<"Luck", 2000>> >>,
      << <<"Versatility", 700>> >>,
      << <<"Crit", 900>>, <<"Versatility", 700>>, <<"Mastery", 600>> >> }

Config(role, gear_level, weapon_level, unique_count, gem_assumption, min_stats) ==
    [class_name |-> role[1], subclass_name |-> role[2],
     gear_level |-> gear_level, weapon_level |-> weapon_level,
     unique_count |-> unique_count, gem_assumption |-> gem_assumption,
     min_stats |-> min_stats]

\* Configurations solved on top of locked gear.
ConfigInputs ==
    { Config(r, 80, 90, u, "avg", m) :
        r \in RoleInputs, u \in UniqueCountInputs, m \in MinStatsInputs }

(***************************************************************************)
(* State.                                                                  *)
(***************************************************************************)
VARIABLES
    locked_pieces,    \* LockedGearManager.locked_pieces
    hashseed,         \* string hash seed of the running interpreter
    config,           \* the caller's configuration (config_data)
    calc,             \* the GearCalculator, a record of its fields
    pc,               \* "nocalc", "ready", "loop" (inside calculate), "returned"
    max_solutions,    \* argument of the calculate call
    cursor,           \* position of the three nested for loops of calculate
    examined,         \* candidates the loops have gone through
    solutions,        \* self.solutions
    solutions_found,  \* local solutions_found
    result,           \* list the last calculate call returned
    first,            \* an earlier solve the caller has kept: its inputs and
                      \* the list it returned
    call,             \* the caller's last call of the manager or of the
                      \* constructor: the operation, its arguments,
                      \* locked_pieces before it and what it returned
    app,              \* RPGCalculatorApp: the calculating flag, and the
                      \* callbacks root.after has queued for the main loop
    threads           \* the background threads running run_calculation:
                      \* position, config_data, what the constructor has
                      \* read of the manager, the calculator, the solutions

vars == <<locked_pieces, hashseed, config, calc, pc, max_solutions, cursor,
          examined, solutions, solutions_found, result, first, call, app,
          threads>>

NoConfig == [class_name |-> None]
NoCalc   == [class_name |-> None]
NoCursor == <<0, 0, 0>>
NoFirst  == [config |-> NoConfig]
NoCall   == [op |-> None]
NoApp    == [calculating |-> FALSE, after |-> <<>>]

Init ==
    /\ locked_pieces = AddAll(<<>>, BasePieces)
    /\ hashseed \in HashSeeds
    /\ config = NoConfig
    /\ calc = NoCalc
    /\ pc = "nocalc"
    /\ max_solutions = <<>>
    /\ cursor = NoCursor
    /\ examined = 0
    /\ solutions = <<>>
    /\ solutions_found = 0
    /\ result = <<>>
    /\ first = NoFirst
    /\ call = NoCall
    /\ app = NoApp
    /\ threads = <<>>

(***************************************************************************)
(* The manager's operations.                                               *)
(***************************************************************************)
AddGearAction ==
    /\ pc = "nocalc"
    /\ \E gear \in GearInputs : locked_pieces' = add_gear(locked_pieces, gear)[2]
    /\ UNCHANGED <<app, threads, hashseed, config, calc, pc, max_solutions, cursor, examined,
                   solutions, solutions_found, result, first, call>>

(***************************************************************************)
(* GearCalculator(...): the constructor call.                              *)
(***************************************************************************)
ConstructFrom(configs) ==
    /\ pc = "nocalc"
    /\ \E cfg \in configs :
         /\ ValidConfig(cfg.class_name, cfg.subclass_name, cfg.gear_level,
                        cfg.weapon_level)
         /\ config' = cfg
         /\ calc' = GearCalculator(cfg.class_name, cfg.subclass_name,
                                   cfg.gear_level, cfg.weapon_level,
                                   cfg.unique_count, cfg.gem_assumption,
                                   cfg.min_stats, locked_pieces, hashseed)
    /\ pc' = "ready"
    /\ solutions' = <<>>
    /\ UNCHANGED <<app, threads, locked_pieces, hashseed, max_solutions, cursor, examined,
                   solutions_found, result, first, call>>

Construct == ConstructFrom(ConfigInputs)


(***************************************************************************)
(* calculator_v2.py: calculate.  The call is one step up to the first      *)
(* candidate of the nested loops, then one step per candidate: the body    *)
(* of the innermost loop, and the return when the cap is reached or the    *)
(* loops are exhausted.                                                    *)
(***************************************************************************)
\* `max_solutions and solutions_found >= max_solutions`
CapReached(cap, found) == cap # <<>> /\ cap[1] # 0 /\ found >= cap[1]

\* The solution dict built in the loop body.
Solution(c, slot_combo, unique_slots, gear_assignment, alloc, gear_totals) ==
    [slots           |-> c.locked_slots_order \o slot_combo,
     unique_slots    |-> unique_slots,
     gear_assignment |-> gear_assignment,
     gem_counts      |-> alloc[1],
     reforge_counts  |-> alloc[2],
     final_totals    |-> alloc[3],
     gear_totals     |-> gear_totals,
     has_locked_gear |-> c.has_locked_gear]

\* _validate_fully_locked_build that returns the build whatever the
\* allocator found.
validate_fully_locked_build_unchecked(c) ==
    LET gear_totals == c.locked_stats
        alloc == assign_gems_and_reforges(c, gear_totals)
        spent == IF alloc # <<>> THEN alloc ELSE << <<>>, <<>>, gear_totals, FALSE >>
    IN  << [slots           |-> c.locked_slots_order,
            unique_slots    |-> <<>>,
            gear_assignment |-> <<>>,
            gem_counts      |-> spent[1],
            reforge_counts  |-> spent[2],
            final_totals    |-> spent[3],
            gear_totals     |-> gear_totals,
            has_locked_gear |-> TRUE,
            fully_locked    |-> TRUE] >>

\* _validate_fully_locked_build: the list it returns
validate_fully_locked_build(c) ==
    LET gear_totals == c.locked_stats
        alloc == assign_gems_and_reforges(c, gear_totals)
    IN  IF alloc # <<>> /\ alloc[4]
        THEN << [slots           |-> c.locked_slots_order,
                 unique_slots    |-> <<>>,
                 gear_assignment |-> <<>>,
                 gem_counts      |-> alloc[1],
                 reforge_counts  |-> alloc[2],
                 final_totals    |-> alloc[3],
                 gear_totals     |-> gear_totals,
                 has_locked_gear |-> TRUE,
                 fully_locked    |-> TRUE] >>
        ELSE <<>>

\* The first loop position at or after slot combination ci: a combination
\* without unique assignments has no iterations.
RECURSIVE FirstCursorFrom(_, _, _)
FirstCursorFrom(c, slot_combinations, ci) ==
    IF ci > Len(slot_combinations) THEN NoCursor
    ELSE IF get_unique_slot_assignments(c, slot_combinations[ci]) = <<>>
         THEN FirstCursorFrom(c, slot_combinations, ci + 1)
         ELSE <<ci, 1, 1>>

\* The loop position after cur: the innermost loop (stat assignments) first,
\* then the unique assignments, then the slot combinations.
NextCursor(c, slot_combinations, cur) ==
    LET slot_combo         == slot_combinations[cur[1]]
        unique_assignments == get_unique_slot_assignments(c, slot_combo)
        leaves == LeafCount(c, slot_combo, unique_assignments[cur[2]], 1)
    IN  IF cur[3] < leaves THEN <<cur[1], cur[2], cur[3] + 1>>
        ELSE IF cur[2] < Len(unique_assignments) THEN <<cur[1], cur[2] + 1, 1>>
        ELSE FirstCursorFrom(c, slot_combinations, cur[1] + 1)

\* The candidate the loops are at.
CandidateAt(c, cur) ==
    LET slot_combo   == get_optional_slot_combinations(c)[cur[1]]
        unique_slots == get_unique_slot_assignments(c, slot_combo)[cur[2]]
    IN  [slot_combo      |-> slot_combo,
         unique_slots    |-> unique_slots,
         gear_assignment |-> enumerate_gear_stats(c, slot_combo, unique_slots,
                                                  cur[3])]

\* calculate(max_solutions) up to the first candidate.
CalculateCall ==
    /\ pc = "ready"
    /\ \E cap \in CapInputs : max_solutions' = cap
    /\ solutions' = <<>>
    /\ solutions_found' = 0
    /\ examined' = 0
    /\ IF calc.has_locked_gear /\ Cardinality(calc.locked_slots) >= 10
       THEN /\ result' = validate_fully_locked_build(calc)
            /\ pc' = "returned"
            /\ cursor' = NoCursor
       ELSE LET slot_combinations == get_optional_slot_combinations(calc)
                start == FirstCursorFrom(calc, slot_combinations, 1)
            IN  IF slot_combinations = <<>>
                THEN /\ result' = <<>>
                     /\ pc' = "returned"
                     /\ cursor' = NoCursor
                ELSE IF start = NoCursor
                THEN /\ result' = solutions'
                     /\ pc' = "returned"
                     /\ cursor' = NoCursor
                ELSE /\ result' = <<>>
                     /\ pc' = "loop"
                     /\ cursor' = start
    /\ UNCHANGED <<app, threads, locked_pieces, hashseed, config, calc, first, call>>

\* The loop body on a generator that yields current_assignment itself and
\* not a copy of it: the Solutions appended from the same generator hold
\* the one dict, which is the candidate's assignment by now.
IterateSharedAssignment ==
    /\ pc = "loop"
    /\ examined < MaxSteps
    /\ LET cand        == CandidateAt(calc, cursor)
           gear_totals == calculate_gear_totals(calc, cand.gear_assignment,
                                                cand.slot_combo)
           alloc       == assign_gems_and_reforges(calc, gear_totals)
           accepted    == alloc # <<>> /\ alloc[4]
           next        == NextCursor(calc, get_optional_slot_combinations(calc),
                                     cursor)
           this        == Solution(calc, cand.slot_combo, cand.unique_slots,
                                   cand.gear_assignment, alloc, gear_totals)
           shared      == [i \in 1..Len(solutions) |->
                             IF /\ solutions[i].slots = this.slots
                                /\ solutions[i].unique_slots = this.unique_slots
                             THEN [solutions[i] EXCEPT
                                      !.gear_assignment = cand.gear_assignment]
                             ELSE solutions[i]]
       IN  /\ solutions' = IF accepted THEN Append(shared, this) ELSE shared
           /\ solutions_found' = IF accepted THEN solutions_found + 1
                                 ELSE solutions_found
           /\ examined' = examined + 1
           /\ IF (accepted /\ CapReached(max_solutions, solutions_found'))
                 \/ next = NoCursor
              THEN /\ pc' = "returned"
                   /\ result' = solutions'
                   /\ cursor' = NoCursor
              ELSE /\ pc' = "loop"
                   /\ result' = result
                   /\ cursor' = next
    /\ UNCHANGED <<app, threads, locked_pieces, hashseed, config, calc, max_solutions, first, call>>

\* The loop body with the deficits worked off in the min_stats dict itself:
\* the thresholds the candidate's gear already meets are deleted from it.
IterateInPlace ==
    /\ pc = "loop"
    /\ examined < MaxSteps
    /\ LET cand        == CandidateAt(calc, cursor)
           gear_totals == calculate_gear_totals(calc, cand.gear_assignment,
                                                cand.slot_combo)
           alloc       == assign_gems_and_reforges(calc, gear_totals)
           accepted    == alloc # <<>> /\ alloc[4]
           next        == NextCursor(calc, get_optional_slot_combinations(calc),
                                     cursor)
           open(entry) == gear_totals[entry[1]] < entry[2]
           left        == SelectSeq(calc.min_stats, open)
       IN  /\ solutions' =
                IF accepted
                THEN Append(solutions,
                            Solution(calc, cand.slot_combo, cand.unique_slots,
                                     cand.gear_assignment, alloc, gear_totals))
                ELSE solutions
           /\ solutions_found' = IF accepted THEN solutions_found + 1
                                 ELSE solutions_found
           /\ examined' = examined + 1
           /\ calc' = [calc EXCEPT !.min_stats = left]
           /\ config' = [config EXCEPT !.min_stats = left]
           /\ IF (accepted /\ CapReached(max_solutions, solutions_found'))
                 \/ next = NoCursor
              THEN /\ pc' = "returned"
                   /\ result' = solutions'
                   /\ cursor' = NoCursor
              ELSE /\ pc' = "loop"
                   /\ result' = result
                   /\ cursor' = next
    /\ UNCHANGED <<app, threads, locked_pieces, hashseed, max_solutions, first, call>>

\* One pass through the body of the innermost loop.
Iterate ==
    /\ pc = "loop"
    /\ examined < MaxSteps
    /\ LET cand        == CandidateAt(calc, cursor)
           gear_totals == calculate_gear_totals(calc, cand.gear_assignment,
                                                cand.slot_combo)
           alloc       == assign_gems_and_reforges(calc, gear_totals)
           accepted    == alloc # <<>> /\ alloc[4]
           next        == NextCursor(calc, get_optional_slot_combinations(calc),
                                     cursor)
       IN  /\ solutions' =
                IF accepted
                THEN Append(solutions,
                            Solution(calc, cand.slot_combo, cand.unique_slots,
                                     cand.gear_assignment, alloc, gear_totals))
                ELSE solutions
           /\ solutions_found' = IF accepted THEN solutions_found + 1
                                 ELSE solutions_found
           /\ examined' = examined + 1
           /\ IF (accepted /\ CapReached(max_solutions, solutions_found'))
                 \/ next = NoCursor
              THEN /\ pc' = "returned"
                   /\ result' = solutions'
                   /\ cursor' = NoCursor
              ELSE /\ pc' = "loop"
                   /\ result' = result
                   /\ cursor' = next
    /\ UNCHANGED <<app, threads, locked_pieces, hashseed, config, calc, max_solutions, first, call>>

\* The caller drops the calculator and the list it returned.
Discard ==
    /\ pc = "returned"
    /\ pc' = "nocalc"
    /\ config' = NoConfig
    /\ calc' = NoCalc
    /\ max_solutions' = <<>>
    /\ cursor' = NoCursor
    /\ examined' = 0
    /\ solutions' = <<>>
    /\ solutions_found' = 0
    /\ result' = <<>>
    /\ UNCHANGED <<app, threads, locked_pieces, hashseed, first, call>>

Next == AddGearAction \/ Construct \/ CalculateCall \/ Iterate \/ Discard

Spec == Init /\ [][Next]_vars

(***************************************************************************)
(* Scenario B: gear tier 80, weapon tier 90, six unique pieces, no locked  *)
(* gear, one threshold on the first statistic of the role's unique pair.   *)
(***************************************************************************)
\* Roles whose S1 is Luck, Crit, Haste and Mastery, over the three attributes.
ScenarioBRoles ==
    { <<"Stormblade", "Moonstrike">>, <<"Shield Knight", "Recovery">>,
      <<"Frost Mage", "Frost Beam">>, <<"Verdant Oracle", "Smite">> }

\* Thresholds put on S1: the value of the scenario, and the contribution of
\* six unique pieces and the weapon to S1 at these tiers, and one more.
ThresholdInputs == {2000, 1584, 1585}

ScenarioBConfigs ==
    { Config(r, 80, 90, 6, "avg", << <<get_unique_stats(r[1], r[2])[1], t>> >>) :
        r \in ScenarioBRoles, t \in ThresholdInputs }

InitB ==
    /\ locked_pieces = <<>>
    /\ hashseed \in HashSeeds
    /\ config = NoConfig
    /\ calc = NoCalc
    /\ pc = "nocalc"
    /\ max_solutions = <<>>
    /\ cursor = NoCursor
    /\ examined = 0
    /\ solutions = <<>>
    /\ solutions_found = 0
    /\ result = <<>>
    /\ first = NoFirst
    /\ call = NoCall
    /\ app = NoApp
    /\ threads = <<>>

ConstructB == ConstructFrom(ScenarioBConfigs)

NextB == ConstructB \/ CalculateCall \/ Iterate \/ Discard

SpecB == InitB /\ [][NextB]_vars

(***************************************************************************)
(* Two solves of one configuration and one locked set, by two interpreter  *)
(* processes.                                                              *)
(***************************************************************************)
RerunConfigs ==
    { Config(<<"Stormblade", "Moonstrike">>, 80, 90, 6, "avg", m) :
        m \in { <<>>, << <<"Luck", 2000>> >> } }

ConstructRerun == ConstructFrom(RerunConfigs)

\* The caller keeps what the solve returned; the locked set is then handed
\* to a calculator in another interpreter process.
NewProcess ==
    /\ pc = "returned"
    /\ first = NoFirst
    /\ first' = [config |-> config, locked_pieces |-> locked_pieces,
                 max_solutions |-> max_solutions, hashseed |-> hashseed,
                 result |-> result]
    /\ hashseed' \in HashSeeds
    /\ pc' = "nocalc"
    /\ config' = NoConfig
    /\ calc' = NoCalc
    /\ max_solutions' = <<>>
    /\ cursor' = NoCursor
    /\ examined' = 0
    /\ solutions' = <<>>
    /\ solutions_found' = 0
    /\ result' = <<>>
    /\ UNCHANGED <<app, threads, locked_pieces, call>>

NextRerun == ConstructRerun \/ CalculateCall \/ Iterate \/ NewProcess

SpecRerun == Init /\ [][NextRerun]_vars

(***************************************************************************)
(* One calculator called again while the caller keeps the list an earlier  *)
(* call returned (SpecAgain).                                              *)
(***************************************************************************)
\* The caller keeps the returned list and is ready to call calculate on the
\* same calculator again.
KeepResult ==
    /\ pc = "returned"
    /\ first = NoFirst
    /\ first' = [config |-> config, locked_pieces |-> locked_pieces,
                 max_solutions |-> max_solutions, hashseed |-> hashseed,
                 result |-> result]
    /\ pc' = "ready"
    /\ UNCHANGED <<app, threads, locked_pieces, hashseed, config, calc, max_solutions, cursor,
                   examined, solutions, solutions_found, result, call>>

NextAgain == ConstructRerun \/ CalculateCall \/ Iterate \/ KeepResult

SpecAgain == Init /\ [][NextAgain]_vars

(***************************************************************************)
(* The manager and the constructor, call by call: every call of the        *)
(* caller is one step, and the variable call keeps what was asked and      *)
(* what came back.                                                         *)
(***************************************************************************)
\* The pieces handed to add_gear: those of GearInputs, a regular Ring
\* without a main statistic and a regular Armor whose sub statistic is its
\* main statistic.
ManagerGearInputs ==
    GearInputs \cup
    { LockedGear("Ring", FALSE, None, "Luck", None, "Luck"),
      LockedGear("Armor", FALSE, "Haste", "Haste", "Haste", None) }

\* Slots handed to remove_gear: locked from the start, lockable later, and
\* never locked.
RemoveInputs == {"Earrings", "Ring", "Helmet", WEAPON, "Cape"}

\* Eleven pieces on eleven slots.
ElevenPieces ==
    BasePieces \o
    << LockedGear("Ring", TRUE, None, None, "Luck", None),
       LockedGear("Helmet", FALSE, "Crit", "Luck", "Haste", "Crit"),
       LockedGear("Armor", FALSE, "Haste", "Versatility", None, None),
       LockedGear(WEAPON, FALSE, "Haste", "Luck", None, None) >>

\* Lists found under 'locked_pieces' in a preset file: none, two entries
\* on the Ring (the first without the optional keys), and eleven entries.
SnapshotInputs ==
    { <<>>,
      << [slot |-> "Ring", is_unique |-> TRUE],
         piece_to_dict(LockedGear("Ring", FALSE, "Crit", "Luck", None, None)) >>,
      to_dict(ElevenPieces) }

\* Arguments of validate_all: the attribute and the unique pair of a role.
ValidateInputs ==
    { <<CLASS_ATTRIBUTES[c], get_unique_stats(c, r)>> :
        c \in {"Stormblade", "Frost Mage", "Shield Knight"},
        r \in {"Moonstrike", "Icicle"} }

\* Arguments of get_total_stats: gear tier, unique pair, gem value.
TotalStatsInputs ==
    { <<l, get_unique_stats("Stormblade", r), g>> :
        l \in {40, 80}, r \in {"Moonstrike", "Iaido"}, g \in {50, 70} }

\* Configurations handed to the constructor: two it accepts, then a role of
\* another class, a class that does not exist, a gear tier and a weapon
\* tier that are not in the tables.
ManagerConfigs ==
    { Config(<<"Stormblade", "Moonstrike">>, 80, 90, 6, "avg", <<>>),
      Config(<<"Frost Mage", "Icicle">>, 40, 70, 1, "min", <<>>),
      Config(<<"Stormblade", "Icicle">>, 80, 90, 6, "avg", <<>>),
      Config(<<"Bard", "Moonstrike">>, 80, 90, 6, "avg", <<>>),
      Config(<<"Stormblade", "Moonstrike">>, 50, 90, 6, "avg", <<>>),
      Config(<<"Frost Mage", "Icicle">>, 80, 80, 1, "avg", <<>>) }

Call(op, args, ret) == [op |-> op, args |-> args, before |-> locked_pieces, ret |-> ret]

InitM ==
    /\ locked_pieces = AddAll(<<>>, BasePieces)
    /\ hashseed = 0
    /\ config = NoConfig
    /\ calc = NoCalc
    /\ pc = "nocalc"
    /\ max_solutions = <<>>
    /\ cursor = NoCursor
    /\ examined = 0
    /\ solutions = <<>>
    /\ solutions_found = 0
    /\ result = <<>>
    /\ first = NoFirst
    /\ call = NoCall
    /\ app = NoApp
    /\ threads = <<>>

\* success, message = manager.add_gear(gear)
AddGearCall ==
    /\ pc = "nocalc"
    /\ \E gear \in ManagerGearInputs :
         LET r == add_gear(locked_pieces, gear)
         IN  /\ locked_pieces' = r[2]
             /\ call' = Call("add_gear", gear, <<r[1], r[3]>>)
    /\ UNCHANGED <<app, threads, hashseed, config, calc, pc, max_solutions, cursor, examined,
                   solutions, solutions_found, result, first>>

\* manager.remove_gear(slot)
RemoveGearCall ==
    /\ pc = "nocalc"
    /\ \E slot \in RemoveInputs :
         /\ locked_pieces' = remove_gear(locked_pieces, slot)
         /\ call' = Call("remove_gear", slot, None)
    /\ UNCHANGED <<app, threads, hashseed, config, calc, pc, max_solutions, cursor, examined,
                   solutions, solutions_found, result, first>>

\* manager.clear_all()
ClearAllCall ==
    /\ pc = "nocalc"
    /\ locked_pieces' = clear_all(locked_pieces)
    /\ call' = Call("clear_all", None, None)
    /\ UNCHANGED <<app, threads, hashseed, config, calc, pc, max_solutions, cursor, examined,
                   solutions, solutions_found, result, first>>

\* manager = LockedGearManager.from_dict(data), with data the manager's own
\* to_dict() or the content of a preset file
FromDictCall ==
    /\ pc = "nocalc"
    /\ \E data \in {to_dict(locked_pieces)} \cup SnapshotInputs :
         /\ locked_pieces' = from_dict(data)
         /\ call' = Call("from_dict", data, None)
    /\ UNCHANGED <<app, threads, hashseed, config, calc, pc, max_solutions, cursor, examined,
                   solutions, solutions_found, result, first>>

\* errors = manager.validate_all(attribute, unique_stats)
ValidateAllCall ==
    /\ pc = "nocalc"
    /\ \E a \in ValidateInputs :
         call' = Call("validate_all", a, validate_all(locked_pieces, a[1], a[2]))
    /\ UNCHANGED <<app, threads, locked_pieces, hashseed, config, calc, pc, max_solutions,
                   cursor, examined, solutions, solutions_found, result, first>>

\* manager.get_total_stats(gear_level, unique_stats, gem_value)
TotalStatsCall ==
    /\ pc = "nocalc"
    /\ \E a \in TotalStatsInputs :
         call' = Call("get_total_stats", a,
                      get_total_stats(locked_pieces, a[1], a[2], a[3]))
    /\ UNCHANGED <<app, threads, locked_pieces, hashseed, config, calc, pc, max_solutions,
                   cursor, examined, solutions, solutions_found, result, first>>

\* manager.get_resource_usage() and manager.get_available_resources()
ResourcesCall ==
    /\ pc = "nocalc"
    /\ call' = Call("resources", None,
                    <<get_resource_usage(locked_pieces),
                      get_available_resources(locked_pieces)>>)
    /\ UNCHANGED <<app, threads, locked_pieces, hashseed, config, calc, pc, max_solutions,
                   cursor, examined, solutions, solutions_found, result, first>>

\* calculator = GearCalculator(...): the constructor returns the calculator,
\* or raises ValueError at the first check or table lookup that fails and
\* the caller has no calculator.
ConstructCall ==
    /\ pc = "nocalc"
    /\ \E cfg \in ManagerConfigs :
         IF ValidConfig(cfg.class_name, cfg.subclass_name, cfg.gear_level,
                        cfg.weapon_level)
         THEN /\ config' = cfg
              /\ calc' = GearCalculator(cfg.class_name, cfg.subclass_name,
                                        cfg.gear_level, cfg.weapon_level,
                                        cfg.unique_count, cfg.gem_assumption,
                                        cfg.min_stats, locked_pieces, hashseed)
              /\ pc' = "ready"
              /\ call' = Call("GearCalculator", cfg, "calculator")
         ELSE /\ config' = NoConfig
              /\ calc' = NoCalc
              /\ pc' = "nocalc"
              /\ call' = Call("GearCalculator", cfg, "ValueError")
    /\ solutions' = <<>>
    /\ UNCHANGED <<app, threads, locked_pieces, hashseed, max_solutions, cursor, examined,
                   solutions_found, result, first>>

\* The caller drops the calculator without a search.
DropCalculator ==
    /\ pc = "ready"
    /\ pc' = "nocalc"
    /\ config' = NoConfig
    /\ calc' = NoCalc
    /\ UNCHANGED <<app, threads, locked_pieces, hashseed, max_solutions, cursor, examined,
                   solutions, solutions_found, result, first, call>>

NextM ==
    \/ AddGearCall
    \/ RemoveGearCall
    \/ ClearAllCall
    \/ FromDictCall
    \/ ValidateAllCall
    \/ TotalStatsCall
    \/ ResourcesCall
    \/ ConstructCall
    \/ DropCalculator

SpecM == InitM /\ [][NextM]_vars

(***************************************************************************)
(* Scenario C: nine gear pieces are locked, each with a gem and a reforge, *)
(* and the piece locked next fills the tenth gear slot.                    *)
(***************************************************************************)
NinePieces ==
    << LockedGear("Earrings", FALSE, "Crit", "Luck", "Crit", "Crit"),
       LockedGear("Ring", FALSE, "Crit", "Luck", "Crit", "Crit"),
       LockedGear("Charm", FALSE, "Crit", "Mastery", "Luck", "Luck"),
       LockedGear("Necklace", FALSE, "Crit", "Versatility", "Luck", "Luck"),
       LockedGear("Helmet", TRUE, None, None, "Luck", "Luck"),
       LockedGear("Gauntlets", TRUE, None, None, "Haste", "Haste"),
       LockedGear("Boots", TRUE, None, None, "Haste", "Haste"),
       LockedGear("Bracelet(L)", TRUE, None, None, "Crit", "Luck"),
       LockedGear("Bracelet(R)", TRUE, None, None, "Luck", "Crit") >>

\* The Armor pieces the user may lock: with a gem and a reforge, with a gem,
\* with neither.
TenthPieces ==
    { LockedGear("Armor", TRUE, None, None, "Haste", "Luck"),
      LockedGear("Armor", FALSE, "Haste", "Versatility", "Haste", None),
      LockedGear("Armor", FALSE, "Haste", "Luck", None, None) }

\* Thresholds on the two statistics the locked pieces hold 100 of: none, 60
\* and 50 above, and out of reach.
ScenarioCMinStats ==
    { <<>>,
      << <<"Mastery", 160>>, <<"Versatility", 150>> >>,
      << <<"Mastery", 1000>> >> }

ScenarioCConfigs ==
    { Config(r, 80, 90, 0, g, m) :
        r \in RoleInputs, g \in {"min", "avg"}, m \in ScenarioCMinStats }

InitC ==
    /\ locked_pieces = AddAll(<<>>, NinePieces)
    /\ hashseed \in HashSeeds
    /\ config = NoConfig
    /\ calc = NoCalc
    /\ pc = "nocalc"
    /\ max_solutions = <<>>
    /\ cursor = NoCursor
    /\ examined = 0
    /\ solutions = <<>>
    /\ solutions_found = 0
    /\ result = <<>>
    /\ first = NoFirst
    /\ call = NoCall
    /\ app = NoApp
    /\ threads = <<>>

AddTenth ==
    /\ pc = "nocalc"
    /\ \E gear \in TenthPieces : locked_pieces' = add_gear(locked_pieces, gear)[2]
    /\ UNCHANGED <<app, threads, hashseed, config, calc, pc, max_solutions, cursor, examined,
                   solutions, solutions_found, result, first, call>>

ConstructC == ConstructFrom(ScenarioCConfigs)

NextC == AddTenth \/ ConstructC \/ CalculateCall \/ Iterate \/ Discard

SpecC == InitC /\ [][NextC]_vars

(***************************************************************************)
(* assign_gems_and_reforges on its own: the calculator fields it reads     *)
(* (min_stats, the two pools, the two unit values) and gear_totals are     *)
(* drawn from the sets below; the call is one step.                        *)
(***************************************************************************)
\* Largest gem pool and largest reforge pool of a call.
MaxPool == 2

\* Thresholds of a Requirement Map.
AllocThresholds == {0, 50, 60, 110, 130}

\* Requirement Maps in insertion order: none, one or two of three
\* statistics.
AllocMinStats ==
    LET names == {"Crit", "Mastery", "Versatility"}
        one == { << <<s, v>> >> : s \in names, v \in AllocThresholds }
        two == { << <<p[1], v1>>, <<p[2], v2>> >> :
                   p \in {q \in names \X names : q[1] # q[2]},
                   v1 \in AllocThresholds \ {0}, v2 \in AllocThresholds \ {0} }
    IN  {<<>>} \cup one \cup two

\* gear_totals of a candidate: nothing yet, or some of each statistic.
AllocTotals ==
    { ZeroStats,
      [s \in Stats |-> CASE s = "Mastery" -> 10 [] s = "Crit" -> 60 [] OTHER -> 0] }

\* The fields of the calculator the allocator reads.
AllocCalculators ==
    { [min_stats |-> m, total_gems |-> g, total_reforges |-> r,
       gem_value |-> GemValue(a), reforge_value |-> get_gear_level_stats(l).reforge] :
        m \in AllocMinStats, g \in 0..MaxPool, r \in 0..MaxPool,
        a \in {"min", "avg", "max"}, l \in DOMAIN GEAR_LEVELS }

InitA ==
    /\ locked_pieces = <<>>
    /\ hashseed = 0
    /\ config = NoConfig
    /\ calc = NoCalc
    /\ pc = "nocalc"
    /\ max_solutions = <<>>
    /\ cursor = NoCursor
    /\ examined = 0
    /\ solutions = <<>>
    /\ solutions_found = 0
    /\ result = <<>>
    /\ first = NoFirst
    /\ app = NoApp
    /\ threads = <<>>
    /\ \E c \in AllocCalculators, gear_totals \in AllocTotals :
         call = Call("arguments", [c |-> c, gear_totals |-> gear_totals], <<>>)

\* result = self.assign_gems_and_reforges(gear_totals)
AllocateCall ==
    /\ call.op = "arguments"
    /\ call' = Call("assign_gems_and_reforges", call.args,
                    assign_gems_and_reforges(call.args.c, call.args.gear_totals))
    /\ UNCHANGED <<app, threads, locked_pieces, hashseed, config, calc, pc, max_solutions,
                   cursor, examined, solutions, solutions_found, result, first>>

NextA == AllocateCall

SpecA == InitA /\ [][NextA]_vars

(***************************************************************************)
(* Scenario F: the six optional slots locked, then the weapon and          *)
(* mandatory slots (SpecF).                                                *)
(***************************************************************************)
SixOptionalPieces ==
    << LockedGear("Helmet", TRUE, None, None, "Luck", None),
       LockedGear("Armor", FALSE, "Haste", "Versatility", None, None),
       LockedGear("Gauntlets", TRUE, None, None, "Haste", None),
       LockedGear("Boots", TRUE, None, None, None, None),
       LockedGear("Bracelet(L)", TRUE, None, None, "Luck", None),
       LockedGear("Bracelet(R)", TRUE, None, None, None, None) >>

\* The pieces the user may lock on top of them.
ScenarioFPieces ==
    { LockedGear(WEAPON, FALSE, "Haste", "Luck", None, None),
      LockedGear("Earrings", FALSE, "Crit", "Luck", "Crit", None),
      LockedGear("Ring", FALSE, "Crit", "Luck", None, None) }

ScenarioFConfigs ==
    { Config(r, 80, 90, 0, "avg", m) :
        r \in RoleInputs, m \in { <<>>, << <<"Versatility", 700>> >> } }

InitF ==
    /\ locked_pieces = AddAll(<<>>, SixOptionalPieces)
    /\ hashseed \in HashSeeds
    /\ config = NoConfig
    /\ calc = NoCalc
    /\ pc = "nocalc"
    /\ max_solutions = <<>>
    /\ cursor = NoCursor
    /\ examined = 0
    /\ solutions = <<>>
    /\ solutions_found = 0
    /\ result = <<>>
    /\ first = NoFirst
    /\ call = NoCall
    /\ app = NoApp
    /\ threads = <<>>

AddGearF ==
    /\ pc = "nocalc"
    /\ \E gear \in ScenarioFPieces : locked_pieces' = add_gear(locked_pieces, gear)[2]
    /\ UNCHANGED <<app, threads, hashseed, config, calc, pc, max_solutions, cursor, examined,
                   solutions, solutions_found, result, first, call>>

ConstructF == ConstructFrom(ScenarioFConfigs)

NextF == AddGearF \/ ConstructF \/ CalculateCall \/ Iterate \/ Discard

SpecF == InitF /\ [][NextF]_vars

(***************************************************************************)
(* gui_main.py: the application.  The main thread runs the handlers of the *)
(* widgets and the callbacks queued by root.after, each as one step; a     *)
(* background thread runs run_calculation, one step per read of the shared *)
(* manager, and the steps of the threads interleave (SpecG).               *)
(***************************************************************************)
\* calculate(max_solutions) from the loop position cur on, as one
\* computation: the list it returns.
RECURSIVE RunLoops(_, _, _, _, _)
RunLoops(c, cap, cur, sols, found) ==
    IF cur = NoCursor THEN sols
    ELSE LET cand        == CandidateAt(c, cur)
             gear_totals == calculate_gear_totals(c, cand.gear_assignment,
                                                  cand.slot_combo)
             alloc       == assign_gems_and_reforges(c, gear_totals)
             accepted    == alloc # <<>> /\ alloc[4]
             sols2       == IF accepted
                            THEN Append(sols,
                                        Solution(c, cand.slot_combo,
                                                 cand.unique_slots,
                                                 cand.gear_assignment, alloc,
                                                 gear_totals))
                            ELSE sols
             found2      == IF accepted THEN found + 1 ELSE found
         IN  IF accepted /\ CapReached(cap, found2) THEN sols2
             ELSE RunLoops(c, cap,
                           NextCursor(c, get_optional_slot_combinations(c), cur),
                           sols2, found2)

calculate(c, cap) ==
    IF c.has_locked_gear /\ Cardinality(c.locked_slots) >= 10
    THEN validate_fully_locked_build(c)
    ELSE LET slot_combinations == get_optional_slot_combinations(c)
         IN  IF slot_combinations = <<>> THEN <<>>
             ELSE RunLoops(c, cap, FirstCursorFrom(c, slot_combinations, 1),
                           <<>>, 0)

\* What the constructor has read of the manager, call by call.
NoReads == [count |-> <<>>, stats |-> <<>>, slots |-> <<>>, resources |-> <<>>, unique |-> <<>>]

\* GearCalculator.__init__ on what its calls of the manager returned: each
\* of count(), get_total_stats(), get_locked_slots(),
\* get_available_resources() and the iteration of locked_pieces saw the
\* manager as it was at that call.
GearCalculatorOfReads(cfg, reads, seed) ==
    LET defaults == GearCalculator(cfg.class_name, cfg.subclass_name,
                                   cfg.gear_level, cfg.weapon_level,
                                   cfg.unique_count, cfg.gem_assumption,
                                   cfg.min_stats, <<>>, seed)
        locked_slots == Range(get_locked_slots(reads.slots))
        avail == get_available_resources(reads.resources)
        available_unique_slots == FilterOut(UNIQUE_ALLOWED_SLOTS, locked_slots)
        locked_unique_count ==
            Cardinality({i \in 1..Len(reads.unique) : reads.unique[i].is_unique})
        capped == Min2(cfg.unique_count, Len(available_unique_slots))
    IN  IF count(reads.count) = 0 THEN defaults
        ELSE [defaults EXCEPT
                !.has_locked_gear = TRUE,
                !.locked_stats = get_total_stats(reads.stats, cfg.gear_level,
                                                 defaults.unique_stats,
                                                 defaults.gem_value),
                !.locked_slots = locked_slots,
                !.locked_slots_order = SetOrder(get_locked_slots(reads.slots), seed),
                !.total_gems = avail[1],
                !.total_reforges = avail[2],
                !.slots_to_fill = 10 - Cardinality(locked_slots),
                !.unique_count = capped,
                !.total_unique_in_build = locked_unique_count + capped]

\* The piece the user locks in the gear tab while the application runs, on
\* top of the seven locked before.
GuiPieces == { LockedGear("Helmet", TRUE, None, None, "Haste", "Crit") }

\* The row the user selects and removes.
GuiRemoveSlots == {"Helmet"}

\* What get_config() returns: the widgets hold a valid configuration, or a
\* class and a subclass of another class (a loaded preset sets both
\* variables as it finds them).
GuiConfigs ==
    { Config(<<"Stormblade", "Moonstrike">>, 80, 90, 0, "avg", <<>>),
      Config(<<"Stormblade", "Icicle">>, 80, 90, 0, "avg", <<>>) }

InitG ==
    /\ locked_pieces = AddAll(<<>>, BasePieces)
    /\ hashseed = 0
    /\ config = NoConfig
    /\ calc = NoCalc
    /\ pc = "nocalc"
    /\ max_solutions = <<>>
    /\ cursor = NoCursor
    /\ examined = 0
    /\ solutions = <<>>
    /\ solutions_found = 0
    /\ result = <<>>
    /\ first = NoFirst
    /\ call = NoCall
    /\ app = NoApp
    /\ threads = <<>>

\* GearTab.add_gear: the dialog returned a piece.
GearTabAddGear ==
    /\ \E gear \in GuiPieces : locked_pieces' = add_gear(locked_pieces, gear)[2]
    /\ UNCHANGED <<app, threads, hashseed, config, calc, pc, max_solutions,
                   cursor, examined, solutions, solutions_found, result, first,
                   call>>

\* GearTab.remove_selected: the user confirmed.
GearTabRemoveSelected ==
    /\ \E slot \in GuiRemoveSlots \cap Range(get_locked_slots(locked_pieces)) :
         locked_pieces' = remove_gear(locked_pieces, slot)
    /\ UNCHANGED <<app, threads, hashseed, config, calc, pc, max_solutions,
                   cursor, examined, solutions, solutions_found, result, first,
                   call>>

\* A thread that has just been started on run_calculation.
NewThread == [pc |-> "get_config", config |-> NoConfig, reads |-> NoReads, calculator |-> NoCalc, solutions |-> <<>>]

\* start_calculation that starts a thread whatever the flag says.
StartCalculationUnguarded ==
    /\ \E config_data \in GuiConfigs, answer \in BOOLEAN :
         /\ Truthy(config_data.class_name)
         /\ Truthy(config_data.subclass_name)
         /\ config_data.min_stats = <<>> => answer
         /\ config' = config_data
    /\ app' = [app EXCEPT !.calculating = TRUE]
    /\ threads' = Append(threads, NewThread)
    /\ UNCHANGED <<locked_pieces, hashseed, calc, pc, max_solutions, cursor,
                   examined, solutions, solutions_found, result, first, call>>

\* start_calculation, up to thread.start(): nothing while a calculation is
\* in progress, nothing on an incomplete configuration or when the user
\* answers no.
StartCalculation ==
    /\ ~app.calculating
    /\ \E config_data \in GuiConfigs, answer \in BOOLEAN :
         /\ Truthy(config_data.class_name)
         /\ Truthy(config_data.subclass_name)
         /\ config_data.min_stats = <<>> => answer
         /\ config' = config_data
    /\ app' = [app EXCEPT !.calculating = TRUE]
    /\ threads' = Append(threads, NewThread)
    /\ UNCHANGED <<locked_pieces, hashseed, calc, pc, max_solutions, cursor,
                   examined, solutions, solutions_found, result, first, call>>

\* The thread list without its i-th thread.
WithoutThread(i) == SubSeq(threads, 1, i - 1) \o SubSeq(threads, i + 1, Len(threads))

\* What a thread step leaves alone.
ThreadFrame == UNCHANGED <<locked_pieces, hashseed, config, pc, max_solutions, cursor, examined, solutions, solutions_found, result, first, call>>

\* run_calculation: config_data = self.config_tab.get_config()
RunCalculationGetConfig ==
    /\ \E i \in 1..Len(threads), config_data \in GuiConfigs :
         /\ threads[i].pc = "get_config"
         /\ threads' = [threads EXCEPT ![i].pc = "init",
                                       ![i].config = config_data]
    /\ UNCHANGED <<app, calc>>
    /\ ThreadFrame

\* GearCalculator.__init__ up to has_locked_gear: ValueError on an invalid
\* class and subclass, otherwise count() of the manager; without locked
\* gear the defaults, and the calculator is there.
ConstructorBegin ==
    /\ \E i \in 1..Len(threads) :
         LET t == threads[i]
             reads == [t.reads EXCEPT !.count = locked_pieces]
         IN  /\ t.pc = "init"
             /\ IF ~validate_class_subclass(t.config.class_name,
                                            t.config.subclass_name)
                THEN /\ threads' = [threads EXCEPT ![i].pc = "except"]
                     /\ calc' = calc
                ELSE IF count(locked_pieces) > 0
                THEN /\ threads' = [threads EXCEPT ![i].pc = "get_total_stats",
                                                  ![i].reads = reads]
                     /\ calc' = calc
                ELSE /\ threads' =
                          [threads EXCEPT
                             ![i].pc = "calculate",
                             ![i].reads = reads,
                             ![i].calculator =
                                 GearCalculatorOfReads(t.config, reads, hashseed)]
                     /\ calc' = GearCalculatorOfReads(t.config, reads, hashseed)
    /\ UNCHANGED app
    /\ ThreadFrame

\* self.locked_stats = locked_gear_manager.get_total_stats(...)
ConstructorTotalStats ==
    /\ \E i \in 1..Len(threads) :
         /\ threads[i].pc = "get_total_stats"
         /\ threads' = [threads EXCEPT ![i].pc = "get_locked_slots",
                                       ![i].reads.stats = locked_pieces]
    /\ UNCHANGED <<app, calc>>
    /\ ThreadFrame

\* self.locked_slots = set(locked_gear_manager.get_locked_slots())
ConstructorLockedSlots ==
    /\ \E i \in 1..Len(threads) :
         /\ threads[i].pc = "get_locked_slots"
         /\ threads' = [threads EXCEPT ![i].pc = "get_available_resources",
                                       ![i].reads.slots = locked_pieces]
    /\ UNCHANGED <<app, calc>>
    /\ ThreadFrame

\* self.total_gems, self.total_reforges = ...get_available_resources()
ConstructorResources ==
    /\ \E i \in 1..Len(threads) :
         /\ threads[i].pc = "get_available_resources"
         /\ threads' = [threads EXCEPT ![i].pc = "locked_unique_count",
                                       ![i].reads.resources = locked_pieces]
    /\ UNCHANGED <<app, calc>>
    /\ ThreadFrame

\* locked_unique_count = sum(... for piece in manager.locked_pieces ...),
\* the end of the constructor, and self.calculator = the new calculator.
ConstructorUniqueCount ==
    /\ \E i \in 1..Len(threads) :
         LET t == threads[i]
             reads == [t.reads EXCEPT !.unique = locked_pieces]
             built == GearCalculatorOfReads(t.config, reads, hashseed)
         IN  /\ t.pc = "locked_unique_count"
             /\ threads' = [threads EXCEPT ![i].pc = "calculate",
                                           ![i].reads = reads,
                                           ![i].calculator = built]
             /\ calc' = built
    /\ UNCHANGED app
    /\ ThreadFrame

\* solutions = self.calculator.calculate(max_solutions=...), the widget
\* holding 1.
RunCalculationCalculate ==
    /\ \E i \in 1..Len(threads) :
         /\ threads[i].pc = "calculate"
         /\ threads' = [threads EXCEPT
                          ![i].pc = "after",
                          ![i].solutions = calculate(threads[i].calculator, <<1>>)]
    /\ UNCHANGED <<app, calc>>
    /\ ThreadFrame

\* self.root.after(0, lambda: self.calculation_complete(solutions)), and
\* the thread ends.
RunCalculationAfter ==
    /\ \E i \in 1..Len(threads) :
         /\ threads[i].pc = "after"
         /\ app' = [app EXCEPT !.after =
                       Append(@, [callback |-> "calculation_complete",
                                  solutions |-> threads[i].solutions])]
         /\ threads' = WithoutThread(i)
    /\ UNCHANGED calc
    /\ ThreadFrame

\* except Exception as e: self.root.after(0, lambda:
\* self.calculation_error(str(e))), and the thread ends.
RunCalculationExcept ==
    /\ \E i \in 1..Len(threads) :
         /\ threads[i].pc = "except"
         /\ app' = [app EXCEPT !.after =
                       Append(@, [callback |-> "calculation_error",
                                  solutions |-> <<>>])]
         /\ threads' = WithoutThread(i)
    /\ UNCHANGED calc
    /\ ThreadFrame

\* The main loop runs the oldest queued callback.  calculation_complete
\* clears the flag and hands the solutions to the results tab.  The lambda
\* of the except clause reads e, which the end of the except clause has
\* unbound: the callback raises NameError before calculation_error is
\* called, and the flag stays as it is.
MainLoopCallback ==
    /\ app.after # <<>>
    /\ LET callback == Head(app.after)
       IN  IF callback.callback = "calculation_complete"
           THEN /\ app' = [calculating |-> FALSE, after |-> Tail(app.after)]
                /\ result' = callback.solutions
           ELSE /\ app' = [app EXCEPT !.after = Tail(app.after)]
                /\ result' = result
    /\ UNCHANGED <<threads, locked_pieces, hashseed, config, calc, pc,
                   max_solutions, cursor, examined, solutions, solutions_found,
                   first, call>>

NextG ==
    \/ GearTabAddGear
    \/ GearTabRemoveSelected
    \/ StartCalculation
    \/ RunCalculationGetConfig
    \/ ConstructorBegin
    \/ ConstructorTotalStats
    \/ ConstructorLockedSlots
    \/ ConstructorResources
    \/ ConstructorUniqueCount
    \/ RunCalculationCalculate
    \/ RunCalculationAfter
    \/ RunCalculationExcept
    \/ MainLoopCallback

SpecG == InitG /\ [][NextG]_vars

(***************************************************************************)
(* Properties of the Solutions calculate returns.                          *)
(***************************************************************************)
\* The Solutions of the list the last calculate call returned.
Returned == IF pc = "returned" THEN Range(result) ELSE {}

\* The Solutions appended so far by a call that has not returned, and those
\* of the list the last call returned.
Found == Range(solutions) \cup Returned

\* The locked pieces, as a set.
Locked == Range(locked_pieces)

\* C1: every Solution calculate returns (and every one it has appended so
\* far), from the enumeration and from the all-slots-locked path, has
\* final_totals[statistic] >= threshold for every statistic whose threshold
\* in min_stats is positive.
C1_ThresholdsMet ==
    \A sol \in Found : \A j \in 1..Len(calc.min_stats) :
        calc.min_stats[j][2] > 0 =>
            Get0(sol.final_totals, calc.min_stats[j][1]) >= calc.min_stats[j][2]

\* C1 happens: a returned Solution whose gear alone is below a positive
\* threshold and whose gems and reforges close the gap.
C1_Witness ==
    \E sol \in Returned : \E j \in 1..Len(calc.min_stats) :
        /\ calc.min_stats[j][2] > 0
        /\ Get0(sol.gear_totals, calc.min_stats[j][1]) < calc.min_stats[j][2]
        /\ Get0(sol.final_totals, calc.min_stats[j][1]) >= calc.min_stats[j][2]

\* C2: in every Solution calculate returns or has appended so far, the gems
\* spent (the sum of gem_counts) are at most 11
\* minus the number of locked pieces carrying a gem, and the reforges spent
\* at most 11 minus the number of locked pieces carrying a reforge.
C2_SpendWithinPool ==
    \A sol \in Found :
        /\ SumValues(sol.gem_counts)
              <= 11 - Cardinality({i \in 1..Len(locked_pieces) :
                                     Truthy(locked_pieces[i].gem_stat)})
        /\ SumValues(sol.reforge_counts)
              <= 11 - Cardinality({i \in 1..Len(locked_pieces) :
                                     Truthy(locked_pieces[i].reforge_stat)})

\* C2 happens: a returned Solution that spends the whole gem pool left by
\* the locked pieces' gems, and reforges on top.
C2_Witness ==
    \E sol \in Returned :
        /\ \E i \in 1..Len(locked_pieces) : Truthy(locked_pieces[i].gem_stat)
        /\ SumValues(sol.gem_counts)
              = 11 - Cardinality({i \in 1..Len(locked_pieces) :
                                    Truthy(locked_pieces[i].gem_stat)})
        /\ SumValues(sol.reforge_counts) > 0

\* The locked pieces that occupy a slot of the Solution.
LockedIn(sol) == {piece \in Locked : piece.slot \in Range(sol.slots)}

\* A regular piece's pair is legal on its slot: main # sub, and neither is the
\* slot's forbidden statistic for the attribute.
LegalPair(slot, main_stat, sub_stat, attribute) ==
    /\ main_stat # sub_stat
    /\ LET forbidden == get_forbidden_stat(slot, attribute)
       IN  Truthy(forbidden) => main_stat # forbidden /\ sub_stat # forbidden

\* C3: in every Solution calculate returns, every regular slot, generated by
\* the search or occupied by a locked piece, has main # sub and neither equal
\* to the slot's forbidden statistic for the calculator's attribute.
C3_RegularSlotsLegal ==
    \A sol \in Returned :
        /\ \A slot \in DOMAIN sol.gear_assignment :
              LET a == sol.gear_assignment[slot]
              IN  ~a[3] => LegalPair(slot, a[1], a[2], calc.attribute)
        /\ \A piece \in LockedIn(sol) :
              ~piece.is_unique =>
                  LegalPair(piece.slot, piece.main_stat, piece.sub_stat,
                            calc.attribute)

\* C4: in every Solution calculate returns, the locked pieces flagged unique
\* plus the generated unique slots number at most 6.
C4_AtMostSixUnique ==
    \A sol \in Returned :
        Cardinality({piece \in LockedIn(sol) : piece.is_unique})
            + Len(sol.unique_slots) <= 6

\* What the locked pieces other than the weapon add to the totals.
LockedGearStats(c) ==
    get_total_stats(FilterOut(locked_pieces,
                              {piece \in Locked : piece.slot = WEAPON}),
                    c.gear_level, c.unique_stats, c.gem_value)

\* What the generated slots add to the totals.
GeneratedStats(c, sol) ==
    [s \in Stats |->
        SumValues([slot \in DOMAIN sol.gear_assignment |->
            LET a == sol.gear_assignment[slot]
            IN  (IF a[1] = s THEN c.primary_value ELSE 0)
                + (IF a[2] = s
                   THEN (IF a[3] THEN c.primary_value ELSE c.secondary_value)
                   ELSE 0)])]

\* C5: in every Solution calculate returns the weapon is unique gear: what
\* the totals hold beyond the gear pieces is the role's unique pair at the
\* weapon tier's value, also when the weapon slot holds a locked piece.
C5_WeaponIsUniquePair ==
    \A sol \in Returned : \A s \in Stats :
        sol.gear_totals[s] - LockedGearStats(calc)[s] - GeneratedStats(calc, sol)[s]
            = IF s \in Range(calc.unique_stats) THEN calc.weapon_stat_value ELSE 0

\* C6: in every Solution calculate returns, every slot carrying unique gear,
\* generated or locked, is one of the six unique-eligible slots: Earrings,
\* Ring, Charm and Necklace are never unique.
C6_UniqueOnlyOnEligible ==
    \A sol \in Returned :
        /\ Range(sol.unique_slots) \subseteq Range(UNIQUE_ALLOWED_SLOTS)
        /\ \A piece \in LockedIn(sol) :
              piece.is_unique /\ piece.slot # WEAPON =>
                  piece.slot \in Range(UNIQUE_ALLOWED_SLOTS)

\* The last solve had the inputs of the solve kept in `first`.
SameInputsAsFirst ==
    /\ pc = "returned"
    /\ first # NoFirst
    /\ first.config = config
    /\ first.locked_pieces = locked_pieces

\* C7: two solves constructed from identical configuration and identical
\* locked sets return identical Solution sequences: same length, same order,
\* corresponding Solutions equal field by field, the order of the 'slots'
\* list included.
C7_Deterministic ==
    SameInputsAsFirst /\ first.max_solutions = max_solutions =>
        result = first.result

\* s[:n]
Take(s, n) == SubSeq(s, 1, Min2(n, Len(s)))

\* C8: for every cap N passed to calculate, the list returned is the first N
\* elements of the list calculate without a cap returns for the same inputs
\* (all of it when it has fewer than N elements).
C8_CapIsPrefix ==
    /\ SameInputsAsFirst
    /\ first.hashseed = hashseed
    /\ first.max_solutions = <<>>
    /\ max_solutions # <<>>
    => result = Take(first.result, max_solutions[1])

\* The first statistic of the role's unique pair.
S1 == calc.unique_stats[1]

ScenarioBCall ==
    /\ pc \in {"loop", "returned"}
    /\ locked_pieces = <<>>
    /\ config.gear_level = 80 /\ config.weapon_level = 90
    /\ config.unique_count = 6
    /\ Len(config.min_stats) = 1 /\ config.min_stats[1][1] = S1

ScenarioB == ScenarioBCall /\ pc = "returned"

ZeroSpendOn(sol, stat) ==
    Get0(sol.gem_counts, stat) = 0 /\ Get0(sol.reforge_counts, stat) = 0

\* C9 as stated: in scenario B with the threshold {S1: 2000}, every Solution
\* calculate returns has zero gems and zero reforges spent on S1.
C9_ZeroSpendAt2000 ==
    ScenarioB /\ config.min_stats[1][2] = 2000 =>
        \A sol \in Returned : ZeroSpendOn(sol, S1)

\* C9 as amended: in scenario B six unique pieces and the weapon contribute
\* 6 * 200 + 384 = 1584 to S1; with a threshold {S1: T}, T <= 1584, every
\* Solution calculate returns has zero gems and zero reforges spent on S1,
\* and with a larger threshold a Solution spends on S1 exactly when its gear
\* leaves S1 below the threshold.
C9_ZeroSpendUpTo1584 ==
    ScenarioBCall =>
        \A sol \in Found :
            /\ sol.gear_totals[S1] >= 6 * 200 + 384
            /\ ZeroSpendOn(sol, S1) <=> sol.gear_totals[S1] >= config.min_stats[1][2]
            /\ config.min_stats[1][2] <= 1584 => ZeroSpendOn(sol, S1)

\* C9 happens: scenario B with the threshold {S1: 1584} has returned
\* Solutions, and their gear gives S1 exactly 1584.
C9_Witness ==
    /\ ScenarioB
    /\ config.min_stats[1][2] = 1584
    /\ \E sol \in Returned : sol.gear_totals[S1] = 1584 /\ ZeroSpendOn(sol, S1)

\* The structurally valid assignments of calculator c, as sets.  A slot
\* selection is the unlocked mandatory slots and as many unlocked optional
\* slots as are still to fill; a unique placement is unique_count of the
\* selection's unique-eligible slots; a unique slot holds the unique pair, a
\* regular slot an ordered pair of distinct valid statistics.
SlotSelections(c) ==
    LET mandatory == Range(MANDATORY_SLOTS) \ c.locked_slots
        optional  == Range(OPTIONAL_SLOTS) \ c.locked_slots
        wanted    == c.slots_to_fill - Cardinality(mandatory)
    IN  {mandatory \cup o : o \in {x \in SUBSET optional :
                                      Cardinality(x) = IF wanted < 0 THEN 0
                                                       ELSE wanted}}

UniquePlacements(c, selection) ==
    {u \in SUBSET (selection \cap Range(UNIQUE_ALLOWED_SLOTS)) :
        Cardinality(u) = c.unique_count}

SlotOptions(c, slot, placement) ==
    IF slot \in placement
    THEN {<<c.unique_stats[1], c.unique_stats[2], TRUE>>}
    ELSE {<<m, s, FALSE>> :
            m, s \in Stats \ {get_forbidden_stat(slot, c.attribute)}}
         \ {<<m, m, FALSE>> : m \in Stats}

ValidAssignments(c) ==
    UNION { UNION { {<<u, a>> :
                      a \in {x \in [sel -> UNION {SlotOptions(c, s, u) : s \in sel}] :
                                \A s \in sel : x[s] \in SlotOptions(c, s, u)}} :
                    u \in UniquePlacements(c, sel)} :
            sel \in SlotSelections(c) }

\* <<placement, assignment>> is a structurally valid assignment of c.
IsValidAssignment(c, placement, assignment) ==
    /\ DOMAIN assignment \in SlotSelections(c)
    /\ placement \in UniquePlacements(c, DOMAIN assignment)
    /\ \A s \in DOMAIN assignment : assignment[s] \in SlotOptions(c, s, placement)

\* The <<placement, assignment>> pairs of a list of Solutions.
AssignmentsOf(sols) ==
    {<<Range(sols[i].unique_slots), sols[i].gear_assignment>> : i \in 1..Len(sols)}

\* calculate is in, or has returned from, its loops on an empty requirement
\* map.
EmptyMap ==
    /\ pc \in {"loop", "returned"}
    /\ config.min_stats = <<>>
    /\ ~(calc.has_locked_gear /\ Cardinality(calc.locked_slots) >= 10)

\* The call had no cap and has run its loops to the end.
ScenarioA == EmptyMap /\ pc = "returned" /\ max_solutions = <<>>

\* C10: with an empty requirement map and no cap, calculate returns exactly
\* one Solution for each structurally valid assignment (each slot selection,
\* each unique placement, each ordered pair of distinct valid statistics per
\* regular slot; none missing, none twice), each with no gems, no reforges
\* and final_totals equal to gear_totals.  While the loops run, every
\* candidate gone through is a Solution, valid, and none is there twice.
C10_OnePerValidAssignment ==
    /\ EmptyMap =>
          /\ Len(solutions) = examined
          /\ Cardinality(AssignmentsOf(solutions)) = Len(solutions)
          /\ \A i \in 1..Len(solutions) :
                /\ IsValidAssignment(calc, Range(solutions[i].unique_slots),
                                     solutions[i].gear_assignment)
                /\ solutions[i].gem_counts = <<>>
                /\ solutions[i].reforge_counts = <<>>
                /\ solutions[i].final_totals = solutions[i].gear_totals
    /\ ScenarioA =>
          /\ result = solutions
          /\ AssignmentsOf(result) = ValidAssignments(calc)
          /\ Len(result) = Cardinality(ValidAssignments(calc))

\* C10 happens: such a call has returned Solutions of two slot selections,
\* with regular slots among them.
C10_Witness ==
    /\ ScenarioA
    /\ \E sol1, sol2 \in Returned :
          /\ DOMAIN sol1.gear_assignment # DOMAIN sol2.gear_assignment
          /\ \E slot \in DOMAIN sol1.gear_assignment :
                ~sol1.gear_assignment[slot][3]


(***************************************************************************)
(* The manager, call by call (SpecM).                                      *)
(***************************************************************************)
\* The slots of the pieces of a list, as a set.
SlotsOf(pieces) == {pieces[i].slot : i \in 1..Len(pieces)}

\* The last call was add_gear; its argument is call.args.
AfterAddGear == call.op = "add_gear"

\* C12: an add_gear call made when the slot of the piece is already locked,
\* or when ten pieces are already locked, returns False with a reason (one
\* of the two failure messages) and leaves locked_pieces as it was before
\* the call: the same pieces in the same order.
C12_FailedAddChangesNothing ==
    (AfterAddGear
        /\ (call.args.slot \in SlotsOf(call.before) \/ Len(call.before) >= 10))
    => /\ call.ret[1] = FALSE
       /\ call.ret[2] \in {SlotAlreadyLocked(call.args.slot), CapacityExceeded}
       /\ locked_pieces = call.before

\* A Weapon piece was refused because ten gear pieces were locked.
C12_Witness ==
    /\ AfterAddGear
    /\ Len(call.before) = 10
    /\ call.args.slot \notin SlotsOf(call.before)
    /\ call.ret = <<FALSE, CapacityExceeded>>
    /\ locked_pieces = call.before

\* C13: add_gear succeeds exactly when the slot of the piece is not locked
\* and fewer than ten pieces are locked; on success the piece is appended
\* after the pieces already there and the count grows by one; when the slot
\* is occupied the result is the slot-already-locked failure, with ten
\* pieces locked too; otherwise ten pieces give the capacity failure.
C13_AddGearOutcome ==
    AfterAddGear =>
        LET occupied == call.args.slot \in SlotsOf(call.before)
            full     == Len(call.before) >= 10
        IN  /\ call.ret[1] = (~occupied /\ ~full)
            /\ call.ret[1] =>
                 /\ locked_pieces = call.before \o <<call.args>>
                 /\ count(locked_pieces) = count(call.before) + 1
                 /\ call.ret[2] = Added(call.args.slot)
            /\ occupied => call.ret = <<FALSE, SlotAlreadyLocked(call.args.slot)>>
            /\ (~occupied /\ full) => call.ret = <<FALSE, CapacityExceeded>>

\* With ten pieces locked, a piece for an occupied slot was refused as
\* already locked.
C13_Witness ==
    /\ AfterAddGear
    /\ Len(call.before) = 10
    /\ call.args.slot \in SlotsOf(call.before)
    /\ call.ret = <<FALSE, SlotAlreadyLocked(call.args.slot)>>


\* C14: in every state of the manager, reached by add_gear, remove_gear and
\* clear_all calls or built by from_dict from a serialized snapshot, no two
\* locked pieces are on the same slot and at most ten pieces are locked.
C14_DistinctSlotsAtMostTen ==
    /\ \A i, j \in 1..Len(locked_pieces) :
          locked_pieces[i].slot = locked_pieces[j].slot => i = j
    /\ count(locked_pieces) <= 10


\* The pieces of a list that carry a gem, and those that carry a reforge.
WithGem(pieces) ==
    LET has(piece) == piece.gem_stat \notin {None, ""}
    IN  SelectSeq(pieces, has)

WithReforge(pieces) ==
    LET has(piece) == piece.reforge_stat \notin {None, ""}
    IN  SelectSeq(pieces, has)

\* C15: get_resource_usage returns (number of locked pieces with a gem,
\* number of locked pieces with a reforge), get_available_resources returns
\* (11 - the first, 11 - the second), and a calculator constructed on the
\* manager has these two numbers as its gem pool and its reforge pool.
C15_PoolsAreElevenMinusUsed ==
    /\ call.op = "resources" =>
          /\ call.ret[1] = <<Len(WithGem(locked_pieces)),
                             Len(WithReforge(locked_pieces))>>
          /\ call.ret[2] = <<11 - Len(WithGem(locked_pieces)),
                             11 - Len(WithReforge(locked_pieces))>>
    /\ pc = "ready" =>
          /\ calc.total_gems = 11 - Len(WithGem(locked_pieces))
          /\ calc.total_reforges = 11 - Len(WithReforge(locked_pieces))

\* A calculator was constructed on a manager whose pieces carry gems and
\* reforges, more gems than reforges.
C15_Witness ==
    /\ pc = "ready"
    /\ call.op = "GearCalculator"
    /\ Len(WithGem(locked_pieces)) > Len(WithReforge(locked_pieces))
    /\ Len(WithReforge(locked_pieces)) > 0
    /\ calc.total_gems = 11 - Len(WithGem(locked_pieces))


\* How many pieces of a list satisfy: unique, regular with main statistic
\* s, regular with sub statistic s, gem on s, reforge on s.
UniquePieces(pieces) ==
    LET is(piece) == piece.is_unique
    IN  Len(SelectSeq(pieces, is))

MainOn(pieces, s) ==
    LET is(piece) == ~piece.is_unique /\ piece.main_stat = s
    IN  Len(SelectSeq(pieces, is))

SubOn(pieces, s) ==
    LET is(piece) == ~piece.is_unique /\ piece.sub_stat = s
    IN  Len(SelectSeq(pieces, is))

GemOn(pieces, s) ==
    LET is(piece) == piece.gem_stat = s
    IN  Len(SelectSeq(pieces, is))

ReforgeOn(pieces, s) ==
    LET is(piece) == piece.reforge_stat = s
    IN  Len(SelectSeq(pieces, is))

\* C16: get_total_stats(gear tier, unique pair, gem value) returns, for each
\* statistic, the sum over the locked pieces of what each contributes: a
\* unique piece the tier's primary value on each statistic of the pair, a
\* regular piece primary on its main and secondary on its sub statistic,
\* plus the gem value on the gem statistic and the tier's reforge value on
\* the reforge statistic of every piece that has one.
C16_TotalStatsIsSum ==
    call.op = "get_total_stats" =>
        LET tier  == GEAR_LEVELS[call.args[1]]
            pair  == call.args[2]
            gem   == call.args[3]
        IN  \A s \in Stats :
              call.ret[s] =
                  (IF s \in {pair[1], pair[2]}
                   THEN tier.primary * UniquePieces(locked_pieces) ELSE 0)
                  + tier.primary * MainOn(locked_pieces, s)
                  + tier.secondary * SubOn(locked_pieces, s)
                  + gem * GemOn(locked_pieces, s)
                  + tier.reforge * ReforgeOn(locked_pieces, s)

\* The totals were taken of a manager holding unique pieces and a regular
\* piece with a gem and a reforge.
C16_Witness ==
    /\ call.op = "get_total_stats"
    /\ UniquePieces(locked_pieces) >= 2
    /\ \E i \in 1..Len(locked_pieces) :
          /\ ~locked_pieces[i].is_unique
          /\ locked_pieces[i].gem_stat # None
          /\ locked_pieces[i].reforge_stat # None
          /\ call.ret[locked_pieces[i].reforge_stat] > 0


\* The forbidden statistic of a slot for an attribute, as a set: empty for
\* a slot without a rule (the weapon).
ForbiddenOn(slot, attribute) ==
    IF slot \in Range(ALL_GEAR_SLOTS) THEN {FORBIDDEN_STATS[attribute][slot]}
    ELSE {}

\* A regular piece with a missing main or sub statistic, with main equal to
\* sub, or with the slot's forbidden statistic as main or sub.
IllFormed(piece, attribute) ==
    /\ ~piece.is_unique
    /\ \/ piece.main_stat \in {None, ""}
       \/ piece.sub_stat \in {None, ""}
       \/ piece.main_stat = piece.sub_stat
       \/ {piece.main_stat, piece.sub_stat} \cap ForbiddenOn(piece.slot, attribute) # {}

IllFormedPieces(pieces, attribute) ==
    LET is(piece) == IllFormed(piece, attribute)
    IN  SelectSeq(pieces, is)

\* C17: given an attribute and a unique pair, validate_all leaves the
\* locked set as it was and returns one (slot, reason) entry for each locked
\* regular piece with a missing main or sub statistic, with main equal to
\* sub, or with the forbidden statistic of its slot as main or sub, in the
\* order of the pieces, and no entry for any other piece.
C17_ValidateAllReports ==
    call.op = "validate_all" =>
        LET bad == IllFormedPieces(locked_pieces, call.args[1])
        IN  /\ locked_pieces = call.before
            /\ Len(call.ret) = Len(bad)
            /\ \A i \in 1..Len(bad) :
                  /\ call.ret[i][1] = bad[i].slot
                  /\ call.ret[i][2] \notin {None, "", "Valid"}

\* validate_all reported three regular pieces, one for each kind of
\* violation, of a manager that also holds unique and well-formed pieces.
C17_Witness ==
    /\ call.op = "validate_all"
    /\ Len(call.ret) = 3
    /\ Cardinality({call.ret[i][2] : i \in 1..3}) = 3
    /\ Len(locked_pieces) = 10
    /\ UniquePieces(locked_pieces) = 4


\* The role is one of the roles of the class.
RoleOfClass(class_name, subclass_name) ==
    \E c \in DOMAIN SUBCLASSES :
        /\ c = class_name
        /\ \E i \in 1..Len(SUBCLASSES[c]) : SUBCLASSES[c][i] = subclass_name

\* C18: a constructor call with a role that is not a role of the class,
\* with a gear tier outside {40, 60, 80} or with a weapon tier outside
\* {70, 90} raises, and the caller is left without a calculator; a
\* calculator that exists was constructed from a valid configuration.
C18_InvalidConfigRaises ==
    /\ (/\ call.op = "GearCalculator"
        /\ \/ ~RoleOfClass(call.args.class_name, call.args.subclass_name)
           \/ call.args.gear_level \notin {40, 60, 80}
           \/ call.args.weapon_level \notin {70, 90})
       => /\ call.ret = "ValueError"
          /\ calc = NoCalc
          /\ pc = "nocalc"
    /\ pc = "ready" =>
          /\ RoleOfClass(calc.class_name, calc.subclass_name)
          /\ calc.gear_level \in {40, 60, 80}
          /\ calc.weapon_level \in {70, 90}

\* The constructor raised on a weapon tier that is not in the table, class,
\* role and gear tier being valid.
C18_Witness ==
    /\ call.op = "GearCalculator"
    /\ call.ret = "ValueError"
    /\ RoleOfClass(call.args.class_name, call.args.subclass_name)
    /\ call.args.gear_level = 80
    /\ call.args.weapon_level = 80
    /\ calc = NoCalc


(***************************************************************************)
(* The Solutions of calculate on locked gear (Spec).                       *)
(***************************************************************************)
\* What gear_totals of a Solution is to hold for statistic s: the locked
\* pieces' contribution, the weapon tier's value on the unique pair when
\* the weapon slot is not locked, and the generated slots' contribution.
ExpectedGearTotal(c, sol, s) ==
    get_total_stats(locked_pieces, c.gear_level, c.unique_stats, c.gem_value)[s]
    + (IF WEAPON \notin SlotsOf(locked_pieces) /\ s \in Range(c.unique_stats)
       THEN c.weapon_stat_value ELSE 0)
    + GeneratedStats(c, sol)[s]

\* C19: for every Solution calculate returns, the all-slots-locked path
\* included, gear_totals[s] is for each statistic s the locked pieces'
\* contribution, plus the weapon tier's value for each statistic of the
\* unique pair when the weapon slot is not locked, plus the contribution of
\* each generated slot (primary on both pair statistics if unique, primary
\* on main and secondary on sub if regular).
C19_GearTotalsFormula ==
    \A sol \in Returned : \A s \in Stats :
        sol.gear_totals[s] = ExpectedGearTotal(calc, sol, s)


\* C20: for every Solution calculate returns, on any locked set built with
\* add_gear, the 'slots' list holds exactly ten distinct entries, the ten
\* gear slots, each locked or generated, and gear_assignment has an entry
\* for exactly the gear slots that are not locked.
C20_TenGearSlots ==
    \A sol \in Returned :
        /\ Len(sol.slots) = 10
        /\ Range(sol.slots) = Range(ALL_GEAR_SLOTS)
        /\ DOMAIN sol.gear_assignment
              = Range(ALL_GEAR_SLOTS) \ SlotsOf(locked_pieces)


(***************************************************************************)
(* Scenario C: all ten gear slots locked (SpecC).                          *)
(***************************************************************************)
\* calculate has returned on a locked set that holds all ten gear slots.
AllGearSlotsLocked ==
    /\ pc = "returned"
    /\ Range(ALL_GEAR_SLOTS) \subseteq SlotsOf(locked_pieces)

\* The totals of the locked pieces at the calculator's tier and gem value.
LockedTotals ==
    get_total_stats(locked_pieces, calc.gear_level, calc.unique_stats,
                    calc.gem_value)

\* The deficit of the i-th threshold on the locked totals.
Deficit(i) ==
    LET short == calc.min_stats[i][2] - LockedTotals[calc.min_stats[i][1]]
    IN  IF short > 0 THEN short ELSE 0

\* Some split of the gems and reforges left by the locked pieces closes
\* every deficit: g[i] gems and r[i] reforges on the i-th threshold.
Closable ==
    LET n == Len(calc.min_stats)
        G == 11 - Len(WithGem(locked_pieces))
        R == 11 - Len(WithReforge(locked_pieces))
    IN  \E g \in [1..n -> 0..G], r \in [1..n -> 0..R] :
            /\ SumValues(g) <= G
            /\ SumValues(r) <= R
            /\ \A i \in 1..n :
                  g[i] * calc.gem_value + r[i] * calc.reforge_value >= Deficit(i)

\* What calculate did on the all-slots-locked path: no candidate was gone
\* through, and what it returned is nothing or one Solution without
\* generated slots, on the locked totals.
NoEnumeration ==
    /\ examined = 0
    /\ solutions = <<>>
    /\ Len(result) <= 1
    /\ \A sol \in Range(result) :
          /\ sol.gear_assignment = <<>>
          /\ sol.unique_slots = <<>>
          /\ sol.gear_totals = LockedTotals

CalculateStep ==
    /\ pc \in {"ready", "loop"}
    /\ pc' \in {"loop", "returned"}

\* C21: a calculate call leaves its inputs unchanged: no step of it changes
\* the manager's locked_pieces or the min_stats map (the one the caller
\* passed, which is the one the calculator holds), so after it returns they
\* are what they were before the call.  The rule and value tables are
\* definitions of this module that no step writes.
C21_InputsUnchanged ==
    [][CalculateStep =>
          /\ locked_pieces' = locked_pieces
          /\ config'.min_stats = config.min_stats
          /\ calc'.min_stats = calc.min_stats
          /\ calc'.min_stats = config'.min_stats]_vars

\* A call on locked gear with thresholds went through several candidates,
\* spent gems and has returned.
C21_Witness ==
    /\ pc = "returned"
    /\ examined >= 2
    /\ Len(config.min_stats) >= 2
    /\ locked_pieces # <<>>
    /\ \E sol \in Returned : sol.gem_counts # <<>>


(***************************************************************************)
(* Serialization (SpecM).                                                  *)
(***************************************************************************)
\* The last call was from_dict on what to_dict gave for the manager.
AfterRoundTrip ==
    /\ call.op = "from_dict"
    /\ call.args = to_dict(call.before)

\* C22: from_dict(m.to_dict()) holds as many pieces as m, in the same order,
\* and each piece has the slot, unique flag, main, sub, gem and reforge
\* statistic of the piece of m at its position; an absent gem or reforge
\* (None) stays absent.
C22_RoundTrip ==
    AfterRoundTrip =>
        /\ Len(locked_pieces) = Len(call.before)
        /\ \A i \in 1..Len(call.before) :
              /\ locked_pieces[i].slot = call.before[i].slot
              /\ locked_pieces[i].is_unique = call.before[i].is_unique
              /\ locked_pieces[i].main_stat = call.before[i].main_stat
              /\ locked_pieces[i].sub_stat = call.before[i].sub_stat
              /\ locked_pieces[i].gem_stat = call.before[i].gem_stat
              /\ locked_pieces[i].reforge_stat = call.before[i].reforge_stat

\* A manager of ten pieces, unique and regular, one of them with a gem and
\* no reforge, went through to_dict and from_dict.
C22_Witness ==
    /\ AfterRoundTrip
    /\ Len(call.before) = 10
    /\ UniquePieces(locked_pieces) >= 1
    /\ \E i \in 1..Len(locked_pieces) :
          /\ ~locked_pieces[i].is_unique
          /\ locked_pieces[i].gem_stat # None
          /\ locked_pieces[i].reforge_stat = None


(***************************************************************************)
(* The allocator against the two-phase greedy reference (SpecA).           *)
(***************************************************************************)
\* The last call was assign_gems_and_reforges; its calculator fields and
\* its gear_totals.
AfterAllocate == call.op = "assign_gems_and_reforges"

AllocC == call.args.c

AllocN == Len(AllocC.min_stats)

\* The statistic of the i-th entry of the Requirement Map.
StatAt(i) == AllocC.min_stats[i][1]

\* The smallest number of units of value v that cover the deficit d.
UnitsFor(d, v) == CHOOSE k \in 0..d : k * v >= d /\ (k = 0 \/ (k - 1) * v < d)

\* Deficit of the i-th entry: max(0, threshold - total).
RefDeficit(i) ==
    LET short == AllocC.min_stats[i][2] - call.args.gear_totals[StatAt(i)]
    IN  IF short > 0 THEN short ELSE 0

\* Entry j is visited before entry i in a phase on the deficits d: larger
\* deficit first, equal deficits in Requirement Map order.
VisitedBefore(d, j, i) == d[j] > d[i] \/ (d[j] = d[i] /\ j < i)

\* What one phase spends on entry i: min(units for its deficit, what the
\* entries visited before it have left of the pool).
RECURSIVE RefSpend(_, _, _, _)
RefSpend(d, pool, v, i) ==
    IF d[i] = 0 THEN 0
    ELSE LET earlier == {j \in DOMAIN d : d[j] > 0 /\ VisitedBefore(d, j, i)}
             used == SumValues([j \in earlier |-> RefSpend(d, pool, v, j)])
             left == IF pool - used > 0 THEN pool - used ELSE 0
         IN  Min2(UnitsFor(d[i], v), left)

\* The deficits a phase leaves.
RefAfter(d, pool, v) ==
    [i \in DOMAIN d |->
        LET rest == d[i] - RefSpend(d, pool, v, i) * v
        IN  IF rest > 0 THEN rest ELSE 0]

RefD0 == [i \in 1..AllocN |-> RefDeficit(i)]

RefGems == [i \in 1..AllocN |-> RefSpend(RefD0, AllocC.total_gems, AllocC.gem_value, i)]

RefD1 == RefAfter(RefD0, AllocC.total_gems, AllocC.gem_value)

RefReforges == [i \in 1..AllocN |-> RefSpend(RefD1, AllocC.total_reforges, AllocC.reforge_value, i)]

RefD2 == RefAfter(RefD1, AllocC.total_reforges, AllocC.reforge_value)

RefInfeasible == \E i \in 1..AllocN : RefD2[i] > 0

\* A dict of counts holds exactly the positive spends of the reference.
SameCounts(counts, spend) ==
    /\ DOMAIN counts = {StatAt(i) : i \in {j \in 1..AllocN : spend[j] > 0}}
    /\ \A i \in 1..AllocN : spend[i] > 0 => counts[StatAt(i)] = spend[i]

\* What the reference spends on statistic s, in value.
RefGain(s) ==
    SumValues([i \in {j \in 1..AllocN : StatAt(j) = s} |->
        RefGems[i] * AllocC.gem_value + RefReforges[i] * AllocC.reforge_value])

IsSplit(gems, reforges) ==
    /\ SumValues(gems) <= AllocC.total_gems
    /\ SumValues(reforges) <= AllocC.total_reforges
    /\ \A i \in 1..AllocN :
          gems[i] * AllocC.gem_value + reforges[i] * AllocC.reforge_value
              >= RefD0[i]

SplitExists ==
    \E gems \in [1..AllocN -> 0..AllocC.total_gems],
       reforges \in [1..AllocN -> 0..AllocC.total_reforges] :
          IsSplit(gems, reforges)

\* The entries of the Requirement Map with a positive deficit.
DeficitEntries == {i \in 1..AllocN : RefD0[i] > 0}

\* The call reported the candidate infeasible although a split exists.
InfeasibleThoughSplit == AfterAllocate /\ call.ret = <<>> /\ SplitExists

PositionIn(s, x) == CHOOSE i \in 1..Len(s) : s[i] = x

\* The slot selection of a Solution of the loops: its slots after the
\* locked ones.
SelectionOf(sol) ==
    SubSeq(sol.slots, Len(calc.locked_slots_order) + 1, Len(sol.slots))

\* Sequence a comes before sequence b of the same length, position by
\* position, the first position where they differ deciding.
LexBefore(a, b) ==
    \E k \in 1..Len(a) :
       /\ a[k] < b[k]
       /\ \A h \in 1..(k - 1) : a[h] = b[h]

\* A unique placement as the positions of its slots in the selection:
\* combination order is the lexicographic order of these.
PlacementKey(sol) ==
    [k \in 1..Len(sol.unique_slots) |->
        PositionIn(SelectionOf(sol), sol.unique_slots[k])]

\* A statistic assignment as main and sub positions in ALL_STATS, slot by
\* slot in selection order: earlier slots vary slowest, main before sub.
AssignmentKey(sol) ==
    LET sel == SelectionOf(sol)
    IN  [k \in 1..(2 * Len(sel)) |->
            LET a == sol.gear_assignment[sel[(k + 1) \div 2]]
            IN  PositionIn(ALL_STATS, a[2 - (k % 2)])]

\* The enumeration index of a Solution: the position of its selection in
\* get_optional_slot_combinations, then its placement, then its statistic
\* assignment; indices compare position by position.
EnumerationIndex(sol) ==
    <<PositionIn(get_optional_slot_combinations(calc), SelectionOf(sol))>>
    \o PlacementKey(sol) \o AssignmentKey(sol)

\* calculate did not take the all-slots-locked path.
ThroughLoops == ~(calc.has_locked_gear /\ Cardinality(calc.locked_slots) >= 10)

\* C25: the Solutions of the loops are in enumeration order: slot selections
\* in the order of get_optional_slot_combinations outermost, then unique
\* placements in combination order, then the statistic assignments, earlier
\* slots of the selection varying slowest, main statistic outer and sub
\* statistic inner, both in ALL_STATS order.  For positions i < j of the
\* list (and of the result when the call returns it) Solution i has the
\* smaller enumeration index: each Solution has a smaller index than the
\* next one, and the order of indices is transitive.
C25_EnumerationOrder ==
    /\ pc \in {"loop", "returned"} =>
          \A j \in 2..Len(solutions) :
             LexBefore(EnumerationIndex(solutions[j - 1]),
                       EnumerationIndex(solutions[j]))
    /\ (pc = "returned" /\ ThroughLoops) => result = solutions

\* A returned list whose Solutions differ in the placement, and some in the
\* main and some in the sub statistic of a slot only.
C25_Witness ==
    /\ pc = "returned"
    /\ ThroughLoops
    /\ \E i, j \in 1..Len(result) :
          /\ i < j
          /\ result[i].unique_slots # result[j].unique_slots
    /\ \E i, j \in 1..Len(result), slot \in Range(ALL_GEAR_SLOTS) :
          /\ i < j
          /\ slot \in DOMAIN result[i].gear_assignment
          /\ slot \in DOMAIN result[j].gear_assignment
          /\ result[i].unique_slots = result[j].unique_slots
          /\ result[i].gear_assignment[slot][1] # result[j].gear_assignment[slot][1]
    /\ \E i \in 1..(Len(result) - 1), slot \in Range(ALL_GEAR_SLOTS) :
          /\ slot \in DOMAIN result[i].gear_assignment
          /\ slot \in DOMAIN result[i + 1].gear_assignment
          /\ result[i].gear_assignment[slot][1] = result[i + 1].gear_assignment[slot][1]
          /\ result[i].gear_assignment[slot][2] # result[i + 1].gear_assignment[slot][2]


(***************************************************************************)
(* An empty search space (SpecF).                                          *)
(***************************************************************************)
\* The remaining-slot target: 10 minus the locked count.
RemainingTarget == 10 - Cardinality(calc.locked_slots)

UnlockedMandatory == Range(MANDATORY_SLOTS) \ calc.locked_slots

UnlockedOptional == Range(OPTIONAL_SLOTS) \ calc.locked_slots

\* More mandatory slots are unlocked than the target allows.
TooManyMandatory == Cardinality(UnlockedMandatory) > RemainingTarget

\* The unlocked optional slots do not reach the target.
TooFewOptional ==
    Cardinality(UnlockedMandatory) + Cardinality(UnlockedOptional) < RemainingTarget

\* C26: whenever the unlocked mandatory slots exceed the remaining-slot
\* target (10 minus the locked count), or the unlocked optional slots are
\* too few to reach it, get_optional_slot_combinations returns no slot
\* selection and calculate returns an empty sequence without going through
\* a candidate.
C26_EmptySearchSpace ==
    (/\ pc \in {"loop", "returned"}
     /\ calc.has_locked_gear
     /\ ThroughLoops
     /\ TooManyMandatory \/ TooFewOptional)
    => /\ get_optional_slot_combinations(calc) = <<>>
       /\ pc = "returned"
       /\ result = <<>>
       /\ examined = 0


(***************************************************************************)
(* Where gems and reforges go (Spec).                                      *)
(***************************************************************************)
\* The threshold of statistic s in the Requirement Map, 0 if it has none.
ThresholdOf(s) ==
    IF \E i \in 1..Len(calc.min_stats) : calc.min_stats[i][1] = s
    THEN calc.min_stats[CHOOSE i \in 1..Len(calc.min_stats) :
                           calc.min_stats[i][1] = s][2]
    ELSE 0

HasThreshold(s) == \E i \in 1..Len(calc.min_stats) : calc.min_stats[i][1] = s

\* Statistic s has no deficit in the Solution: no threshold, or the gear
\* alone reaches it.
NoDeficit(sol, s) == ~HasThreshold(s) \/ sol.gear_totals[s] >= ThresholdOf(s)

\* C27: in every Solution calculate returns (and every one appended so far),
\* a statistic without a threshold, or whose gear_totals already reaches its
\* threshold, has no entry in gem_counts or reforge_counts and its
\* final_totals equals its gear_totals: gems and reforges are spent only on
\* statistics with a positive deficit.
C27_SpendOnlyOnDeficits ==
    \A sol \in Found : \A s \in Stats :
        /\ NoDeficit(sol, s) =>
              /\ s \notin DOMAIN sol.gem_counts
              /\ s \notin DOMAIN sol.reforge_counts
              /\ sol.final_totals[s] = sol.gear_totals[s]
        /\ s \in DOMAIN sol.gem_counts \cup DOMAIN sol.reforge_counts =>
              ThresholdOf(s) - sol.gear_totals[s] > 0

\* A returned Solution with one threshold its gear reaches and another that
\* gems or reforges close.
C27_Witness ==
    \E sol \in Returned : \E s1, s2 \in Stats :
        /\ HasThreshold(s1)
        /\ ThresholdOf(s1) > 0
        /\ sol.gear_totals[s1] >= ThresholdOf(s1)
        /\ s1 \notin DOMAIN sol.gem_counts \cup DOMAIN sol.reforge_counts
        /\ s2 \in DOMAIN sol.gem_counts \cup DOMAIN sol.reforge_counts


(***************************************************************************)
(* Solutions once appended (SpecAgain).                                    *)
(***************************************************************************)
\* The list s is the beginning of the list u, element by element.
IsPrefix(s, u) ==
    /\ Len(s) <= Len(u)
    /\ \A i \in 1..Len(s) : u[i] = s[i]

\* C28: a Solution is never changed after it is appended.  Every step of
\* the loops leaves the Solutions appended so far as they are and in place,
\* what the call returns is that list, and the list an earlier call on the
\* same calculator returned, which the caller holds, keeps its elements
\* through every step of a later call.
C28_AppendedSolutionsStay ==
    [][/\ (pc = "loop" /\ pc' \in {"loop", "returned"}) =>
             /\ IsPrefix(solutions, solutions')
             /\ pc' = "returned" => result' = solutions'
       /\ first # NoFirst => first' = first]_vars

\* A second call on the same calculator has returned, with another cap and
\* another list than the first, whose list of two Solutions the caller
\* holds.
C28_Witness ==
    /\ pc = "returned"
    /\ first # NoFirst
    /\ Len(first.result) >= 2
    /\ Len(result) >= 3
    /\ first.config = config
    /\ first.result = Take(result, 2)


(***************************************************************************)
(* The application and its background thread (SpecG).                      *)
(***************************************************************************)
\* The thread has its calculator: the constructor has returned.
HasCalculator(t) == t.pc \in {"calculate", "after"}

\* The states the manager was in at the constructor's reads.
ManagerStatesRead(t) ==
    {t.reads.count, t.reads.stats, t.reads.slots, t.reads.resources,
     t.reads.unique}

\* The locked data of calculator c are those of the manager state pieces.
LockedDataOf(c, pieces) ==
    /\ c.locked_stats = get_total_stats(pieces, c.gear_level, c.unique_stats,
                                        c.gem_value)
    /\ c.locked_slots = Range(get_locked_slots(pieces))
    /\ <<c.total_gems, c.total_reforges>> = get_available_resources(pieces)

\* C29: while the user adds and removes locked gear in the gear tab, the
\* locked data of the calculator a background calculation works with (the
\* locked statistic totals, the locked slots, the available gems and
\* reforges) are all those of one single state of the manager, one the
\* manager was in when the calculator read it.
C29_OneManagerState ==
    \A i \in 1..Len(threads) :
        HasCalculator(threads[i]) =>
            \E pieces \in ManagerStatesRead(threads[i]) :
                LockedDataOf(threads[i].calculator, pieces)

\* A background calculation is in progress or its callback is queued.
CalculationPending(a, ts) == ts # <<>> \/ a.after # <<>>

\* C30: at most one background calculation is in progress at a time.
\* start_calculation starts no thread while the calculating flag is true;
\* the flag is true while a thread runs and while its callback is queued,
\* and only calculation_complete clears it.
C30_AtMostOneCalculation ==
    [][/\ app.calculating => Len(threads') <= Len(threads)
       /\ Len(threads') <= 1
       /\ CalculationPending(app', threads') => app'.calculating
       /\ (app.calculating /\ ~app'.calculating) =>
             /\ app.after # <<>>
             /\ Head(app.after).callback = "calculation_complete"
             /\ threads = <<>>]_vars

\* A calculation has completed and the results tab holds its solutions; the
\* next one is in progress, its calculator built, and the flag is set.
C30_Witness ==
    /\ app.calculating
    /\ result # <<>>
    /\ Len(threads) = 1
    /\ threads[1].pc = "calculate"

=============================================================================
